---- MODULE Spec2Model ----
(***************************************************************************)
(* gomcc: the execution engine (executor.go) over a loaded configuration   *)
(* (config.go).  One Executor with its check result cache is one run.      *)
(*                                                                         *)
(* Strings that the code parses (commands, on_success, on_failure) are     *)
(* sequences of one-character strings, so that strings.Fields is computed  *)
(* and not assumed.  Names of apps and error kinds are plain strings.      *)
(***************************************************************************)
EXTENDS Integers, Sequences, FiniteSets, TLC

VARIABLES
    config,       \* Executor.config: which configuration file was loaded
    dryRun,       \* Executor.dryRun
    checkCache,   \* Executor.checkCache: check name -> bool, a partial map
    procOutcome,  \* environment: what running a check's command gives now
    spawnCount,   \* history: cmd.Run() calls of ExecuteCheck, per check name
    firstResult,  \* history: the boolean the first ExecuteCheck of a check returned
    lastResult,   \* history: the boolean the latest ExecuteCheck of a check returned
    printCount,   \* history: cmd.Run() calls of PrintCheckResult
    launchCount,  \* history: detached processes started by ExecuteApp
    ret,          \* the latest call of the Executor's API and what it returned
    appsToLaunch, \* main: the apps of the batch, as indexes into Config.Apps
    pos,          \* main: the index in appsToLaunch of the app the loop is at
    pc,           \* main: where the run is: "api", "loop", "launch" or "done"
    successCount, \* main: successCount
    failureCount, \* main: failureCount
    skippedCount, \* main: skippedCount
    parseInput,   \* the command string handed to parseCommand
    parsed,       \* what parseCommand returned for parseInput
    cli,          \* main: the command line, as CLI.ParseArgs reads it
    usagePrinted, \* main: flag.Usage() has printed the usage
    exitStatus,   \* main: the status handed to os.Exit; Running before that
    exited        \* environment: how many launched processes have ended, by status

\* The variables of main's batch loop.
batchVars == <<appsToLaunch, pos, pc, successCount, failureCount, skippedCount>>

\* The variables of a parseCommand call on its own.
parseVars == <<parseInput, parsed>>

\* The variables of main around the batch loop, and the launched processes.
mainVars == <<cli, usagePrinted, exitStatus, exited>>

vars == <<config, dryRun, checkCache, procOutcome, spawnCount, firstResult,
          lastResult, printCount, launchCount, ret, batchVars, parseVars,
          mainVars>>

\* ------------------------------------------------------------------ bounds

\* The API calls stop once a check has been spawned this often.
MaxSpawn == 2
\* PrintCheckResult is not called any more after it ran this many commands.
MaxPrint == 1
\* ExecuteApp is not called any more after this many detached launches.
MaxLaunch == 1
\* The longest command string parseCommand is tried on.
MaxCmdLen == 4

\* ------------------------------------------------------------ config.go

TypeCheck == "check"
TypeExecutable == "executable"

NoDependencies == [n \in {} |-> [OnSuccess |-> <<>>, OnFailure |-> <<>>]]

DependencyAction(onSuccess, onFailure) ==
    [OnSuccess |-> onSuccess, OnFailure |-> onFailure]

App(name, type, command, args, dependencies) ==
    [Name |-> name, Type |-> type, Command |-> command, Args |-> args,
     Dependencies |-> dependencies]

\* A configuration the loader accepts: two checks and six executables whose
\* dependency maps cover one-sided, two-sided, empty and blank actions, and a
\* dependency on an app that is no check.
ValidApps == <<
    App("chkA", TypeCheck, <<"c", "a">>, <<>>, NoDependencies),
    App("chkB", TypeCheck, <<"c", "b">>, << <<"-", "q">> >>, NoDependencies),
    App("plain", TypeExecutable, <<"p">>, << <<"-", "v">> >>, NoDependencies),
    App("one", TypeExecutable, <<"f", "b">>, <<>>,
        [chkA |-> DependencyAction(<<"r", "u", "n">>, <<>>)]),
    App("two", TypeExecutable, <<"d", "2">>, <<>>,
        [chkA |-> DependencyAction(<<"Y", " ", "a", " ", " ", "b">>, <<>>),
         chkB |-> DependencyAction(<<"X">>, <<"Z">>)]),
    App("mix", TypeExecutable, <<"d", "3">>, << <<"m">> >>,
        [chkA |-> DependencyAction(<<"S">>, <<>>),
         chkB |-> DependencyAction(<<>>, <<" ", "F", "\t", "q", " ">>)]),
    App("blank", TypeExecutable, <<"d", "4">>, <<>>,
        [chkA |-> DependencyAction(<<" ", "\t">>, <<>>),
         chkB |-> DependencyAction(<<"K">>, <<>>)]),
    App("wrong", TypeExecutable, <<"d", "5">>, <<>>,
        [plain |-> DependencyAction(<<"W">>, <<>>),
         chkB |-> DependencyAction(<<>>, <<"V">>)])
>>

\* A Config that did not come through LoadConfig and validateConfig: the
\* executable "ghost" depends on a name no app has, "odd" on an executable.
\* The check "chkD" carries a dependency of its own, which no validation rule
\* forbids and which ExecuteCheck never reads.
\* NewExecutor takes any *Config; only such a Config reaches the
\* dependency-not-found branches of the Executor.
UnvalidatedApps == <<
    App("chkA", TypeCheck, <<"c", "a">>, <<>>, NoDependencies),
    App("plain", TypeExecutable, <<"p">>, <<>>, NoDependencies),
    App("chkD", TypeCheck, <<"c", "d">>, <<>>,
        [chkA |-> DependencyAction(<<"Q">>, <<>>)]),
    App("ghost", TypeExecutable, <<"d", "6">>, <<>>,
        [chkA |-> DependencyAction(<<>>, <<"G">>),
         nosuch |-> DependencyAction(<<"H">>, <<>>)]),
    App("odd", TypeExecutable, <<"d", "7">>, <<>>,
        [chkA |-> DependencyAction(<<"T">>, <<>>),
         plain |-> DependencyAction(<<"W">>, <<"U">>)])
>>

\* A family of configuration files, by name: the dependency names of the
\* executable "self" in each, drawn from a check, "self" itself and a name no
\* app has.
GeneratedDeps ==
    ("deps" :> {}) @@ ("deps-chkA" :> {"chkA"}) @@ ("deps-self" :> {"self"})
        @@ ("deps-nosuch" :> {"nosuch"}) @@ ("deps-chkA-self" :> {"chkA", "self"})
        @@ ("deps-chkA-nosuch" :> {"chkA", "nosuch"})
        @@ ("deps-self-nosuch" :> {"self", "nosuch"})
        @@ ("deps-chkA-self-nosuch" :> {"chkA", "self", "nosuch"})

\* Config.Apps of the configuration file where "self" has the dependencies
\* deps: on chkA with an on_success only, on the others with both commands.
\* The executable "onfail" depends on chkA with an on_failure only.
GeneratedApps(deps) == <<
    App("chkA", TypeCheck, <<"c", "a">>, <<>>, NoDependencies),
    App("self", TypeExecutable, <<"d", "8">>, <<>>,
        [d \in deps |-> IF d = "chkA" THEN DependencyAction(<<"S">>, <<>>)
                                      ELSE DependencyAction(<<"T">>, <<"F">>)]),
    App("onfail", TypeExecutable, <<"d", "9">>, <<>>,
        [chkA |-> DependencyAction(<<>>, <<"R", " ", "x">>)])
>>

\* Config.Apps of the Executor's configuration.
Apps ==
    CASE config = "valid" -> ValidApps
      [] config = "unvalidated" -> UnvalidatedApps
      [] config \in DOMAIN GeneratedDeps -> GeneratedApps(GeneratedDeps[config])
      [] OTHER -> <<>>

\* validateConfig without its second loop: dependency names are not looked up.
validateConfig_NoDependencyRule(apps) ==
    /\ \A i, j \in 1..Len(apps) : apps[i].Name = apps[j].Name => i = j
    /\ \A i \in 1..Len(apps) :
        /\ apps[i].Type \in {TypeCheck, TypeExecutable}
        /\ apps[i].Command # <<>>

\* validateConfig: unique names, a known type, a non-empty command, and every
\* dependency name is the name of some app.
validateConfig(apps) ==
    /\ \A i, j \in 1..Len(apps) : apps[i].Name = apps[j].Name => i = j
    /\ \A i \in 1..Len(apps) :
        /\ apps[i].Type \in {TypeCheck, TypeExecutable}
        /\ apps[i].Command # <<>>
    /\ \A i \in 1..Len(apps) : \A depName \in DOMAIN apps[i].Dependencies :
        \E j \in 1..Len(apps) : apps[j].Name = depName

\* Config.GetApp: a pointer to the first app of that name, as its index in
\* Config.Apps; 0 is the nil pointer.
GetApp(name) ==
    IF \E i \in 1..Len(Apps) : Apps[i].Name = name
    THEN CHOOSE i \in 1..Len(Apps) :
            /\ Apps[i].Name = name
            /\ \A j \in 1..(i - 1) : Apps[j].Name # name
    ELSE 0

\* App.Tags of the apps of ValidApps.
ValidTags ==
    [chkA |-> {"net"}, chkB |-> {}, plain |-> {"net", "core"},
     one |-> {"net", "core"}, two |-> {"core"}, mix |-> {"late"},
     blank |-> {"late"}, wrong |-> {"net", "late"}]

\* Config.GetAppsByTag: the apps with the tag, in the order of Config.Apps, as
\* indexes into Config.Apps.
GetAppsByTag(tag) ==
    SelectSeq([i \in 1..Len(Apps) |-> i], LAMBDA i : tag \in ValidTags[Apps[i].Name])

\* The names of the check apps: the commands ExecuteCheck can run.
CheckNames(apps) == {apps[i].Name : i \in {j \in 1..Len(apps) : apps[j].Type = TypeCheck}}

\* ----------------------------------------------------------- environment

\* What cmd.Run() of a check's command gives: exit status 0, a non-zero exit
\* status, or an error starting the process.
Outcomes == {"exit0", "exit1", "nostart"}

\* ------------------------------------------------------------ executor.go

\* m[k] = v on a Go map.
MapSet(m, k, v) == [x \in (DOMAIN m) \cup {k} |-> IF x = k THEN v ELSE m[x]]

EmptyMap == [n \in {} |-> TRUE]

\* The part of the state ExecuteCheck reads and writes, threaded through the
\* calls one handler makes.
\* log holds the failure lines the call hands to e.log at LogVerbose.
ExecState ==
    [cache |-> checkCache, spawn |-> spawnCount, first |-> firstResult,
     last |-> lastResult, prints |-> printCount, log |-> {}]

\* The error cmd.Run() returns for an outcome: nil, an *exec.ExitError, or the
\* error of a process that could not be started.
RunError(outcome) ==
    CASE outcome = "exit0" -> ""
      [] outcome = "exit1" -> "ExitError"
      [] OTHER -> "StartFailure"

\* The line "Check '%s' failed: %v" of ExecuteCheck.
FailedLine(name, err) == [check |-> name, err |-> err]

\* History: ExecuteCheck returned `result` for the check `name`.
Returned(st, name, result) ==
    [st EXCEPT !.first = IF name \in DOMAIN st.first THEN st.first
                         ELSE MapSet(st.first, name, result),
               !.last = MapSet(st.last, name, result)]

\* ExecuteCheck without the cache lookup of lines 51-55: every call runs the
\* command.
ExecuteCheck_NoLookup(st, app) ==
    IF app.Type # TypeCheck
    THEN [st |-> st, success |-> FALSE, err |-> "TypeMismatch", hit |-> FALSE]
    ELSE IF dryRun
    THEN [st |-> Returned([st EXCEPT !.cache = MapSet(st.cache, app.Name, TRUE)],
                          app.Name, TRUE),
          success |-> TRUE, err |-> "", hit |-> FALSE]
    ELSE LET success == procOutcome[app.Name] = "exit0"
         IN  [st |-> Returned([st EXCEPT
                                 !.spawn = [st.spawn EXCEPT ![app.Name] = @ + 1],
                                 !.cache = MapSet(st.cache, app.Name, success)],
                              app.Name, success),
              success |-> success, err |-> "", hit |-> FALSE]

\* ExecuteCheck whose cache lookup trusts only a cached success
\* (`exists && result`): a check that failed is run again.
ExecuteCheck_RetryFailed(st, app) ==
    IF app.Type # TypeCheck
    THEN [st |-> st, success |-> FALSE, err |-> "TypeMismatch", hit |-> FALSE]
    ELSE IF app.Name \in DOMAIN st.cache /\ st.cache[app.Name]
    THEN [st |-> Returned(st, app.Name, st.cache[app.Name]),
          success |-> st.cache[app.Name], err |-> "", hit |-> TRUE]
    ELSE IF dryRun
    THEN [st |-> Returned([st EXCEPT !.cache = MapSet(st.cache, app.Name, TRUE)],
                          app.Name, TRUE),
          success |-> TRUE, err |-> "", hit |-> FALSE]
    ELSE LET success == procOutcome[app.Name] = "exit0"
         IN  [st |-> Returned([st EXCEPT
                                 !.spawn = [st.spawn EXCEPT ![app.Name] = @ + 1],
                                 !.cache = MapSet(st.cache, app.Name, success)],
                              app.Name, success),
              success |-> success, err |-> "", hit |-> FALSE]

\* ExecuteCheck that in dry-run mode returns true without recording it.
ExecuteCheck_DryRunNoRecord(st, app) ==
    IF app.Type # TypeCheck
    THEN [st |-> st, success |-> FALSE, err |-> "TypeMismatch", hit |-> FALSE]
    ELSE IF app.Name \in DOMAIN st.cache
    THEN [st |-> Returned(st, app.Name, st.cache[app.Name]),
          success |-> st.cache[app.Name], err |-> "", hit |-> TRUE]
    ELSE IF dryRun
    THEN [st |-> Returned(st, app.Name, TRUE),
          success |-> TRUE, err |-> "", hit |-> FALSE]
    ELSE LET success == procOutcome[app.Name] = "exit0"
         IN  [st |-> Returned([st EXCEPT
                                 !.spawn = [st.spawn EXCEPT ![app.Name] = @ + 1],
                                 !.cache = MapSet(st.cache, app.Name, success)],
                              app.Name, success),
              success |-> success, err |-> "", hit |-> FALSE]

\* ExecuteCheck that records a failed result for an app that is no check.
ExecuteCheck_RecordsMismatch(st, app) ==
    IF app.Type # TypeCheck
    THEN [st |-> [st EXCEPT !.cache = MapSet(st.cache, app.Name, FALSE)],
          success |-> FALSE, err |-> "TypeMismatch", hit |-> FALSE]
    ELSE IF app.Name \in DOMAIN st.cache
    THEN [st |-> Returned(st, app.Name, st.cache[app.Name]),
          success |-> st.cache[app.Name], err |-> "", hit |-> TRUE]
    ELSE IF dryRun
    THEN [st |-> Returned([st EXCEPT !.cache = MapSet(st.cache, app.Name, TRUE)],
                          app.Name, TRUE),
          success |-> TRUE, err |-> "", hit |-> FALSE]
    ELSE LET err == RunError(procOutcome[app.Name])
             success == err = ""
         IN  [st |-> Returned([st EXCEPT
                                 !.spawn = [st.spawn EXCEPT ![app.Name] = @ + 1],
                                 !.cache = MapSet(st.cache, app.Name, success),
                                 !.log = IF success THEN @
                                         ELSE @ \cup {FailedLine(app.Name, err)}],
                              app.Name, success),
              success |-> success, err |-> "", hit |-> FALSE]

\* ExecuteCheck with `success := err == nil` narrowed to "no exit error": a
\* command that could not be started counts as a success.
ExecuteCheck_OnlyExitErrorFails(st, app) ==
    IF app.Type # TypeCheck
    THEN [st |-> st, success |-> FALSE, err |-> "TypeMismatch", hit |-> FALSE]
    ELSE IF app.Name \in DOMAIN st.cache
    THEN [st |-> Returned(st, app.Name, st.cache[app.Name]),
          success |-> st.cache[app.Name], err |-> "", hit |-> TRUE]
    ELSE IF dryRun
    THEN [st |-> Returned([st EXCEPT !.cache = MapSet(st.cache, app.Name, TRUE)],
                          app.Name, TRUE),
          success |-> TRUE, err |-> "", hit |-> FALSE]
    ELSE LET err == RunError(procOutcome[app.Name])
             success == err # "ExitError"
         IN  [st |-> Returned([st EXCEPT
                                 !.spawn = [st.spawn EXCEPT ![app.Name] = @ + 1],
                                 !.cache = MapSet(st.cache, app.Name, success),
                                 !.log = IF success THEN @
                                         ELSE @ \cup {FailedLine(app.Name, err)}],
                              app.Name, success),
              success |-> success, err |-> "", hit |-> FALSE]

\* ExecuteCheck that returns the error of a command that could not be started
\* to its caller, before the result is recorded.
ExecuteCheck_ReturnsStartError(st, app) ==
    IF app.Type # TypeCheck
    THEN [st |-> st, success |-> FALSE, err |-> "TypeMismatch", hit |-> FALSE]
    ELSE IF app.Name \in DOMAIN st.cache
    THEN [st |-> Returned(st, app.Name, st.cache[app.Name]),
          success |-> st.cache[app.Name], err |-> "", hit |-> TRUE]
    ELSE IF dryRun
    THEN [st |-> Returned([st EXCEPT !.cache = MapSet(st.cache, app.Name, TRUE)],
                          app.Name, TRUE),
          success |-> TRUE, err |-> "", hit |-> FALSE]
    ELSE LET err == RunError(procOutcome[app.Name])
             success == err = ""
         IN  IF err = "StartFailure"
             THEN [st |-> Returned([st EXCEPT
                                      !.spawn = [st.spawn EXCEPT ![app.Name] = @ + 1]],
                                   app.Name, FALSE),
                   success |-> FALSE, err |-> err, hit |-> FALSE]
             ELSE [st |-> Returned([st EXCEPT
                                      !.spawn = [st.spawn EXCEPT ![app.Name] = @ + 1],
                                      !.cache = MapSet(st.cache, app.Name, success),
                                      !.log = IF success THEN @
                                              ELSE @ \cup {FailedLine(app.Name, err)}],
                                   app.Name, success),
                   success |-> success, err |-> "", hit |-> FALSE]

\* ExecuteCheck without the dry-run branch: the check's command is run in a
\* dry run too.
ExecuteCheck_IgnoresDryRun(st, app) ==
    IF app.Type # TypeCheck
    THEN [st |-> st, success |-> FALSE, err |-> "TypeMismatch", hit |-> FALSE]
    ELSE IF app.Name \in DOMAIN st.cache
    THEN [st |-> Returned(st, app.Name, st.cache[app.Name]),
          success |-> st.cache[app.Name], err |-> "", hit |-> TRUE]
    ELSE LET err == RunError(procOutcome[app.Name])
             success == err = ""
         IN  [st |-> Returned([st EXCEPT
                                 !.spawn = [st.spawn EXCEPT ![app.Name] = @ + 1],
                                 !.cache = MapSet(st.cache, app.Name, success),
                                 !.log = IF success THEN @
                                         ELSE @ \cup {FailedLine(app.Name, err)}],
                              app.Name, success),
              success |-> success, err |-> "", hit |-> FALSE]

\* Executor.ExecuteCheck: [st, success, err, hit]; hit is the debug line
\* "Using cached result".  The error of cmd.Run() goes into the failure line
\* and is not returned.
ExecuteCheck(st, app) ==
    IF app.Type # TypeCheck
    THEN [st |-> st, success |-> FALSE, err |-> "TypeMismatch", hit |-> FALSE]
    ELSE IF app.Name \in DOMAIN st.cache
    THEN [st |-> Returned(st, app.Name, st.cache[app.Name]),
          success |-> st.cache[app.Name], err |-> "", hit |-> TRUE]
    ELSE IF dryRun
    THEN [st |-> Returned([st EXCEPT !.cache = MapSet(st.cache, app.Name, TRUE)],
                          app.Name, TRUE),
          success |-> TRUE, err |-> "", hit |-> FALSE]
    ELSE LET err == RunError(procOutcome[app.Name])
             success == err = ""
         IN  [st |-> Returned([st EXCEPT
                                 !.spawn = [st.spawn EXCEPT ![app.Name] = @ + 1],
                                 !.cache = MapSet(st.cache, app.Name, success),
                                 !.log = IF success THEN @
                                         ELSE @ \cup {FailedLine(app.Name, err)}],
                              app.Name, success),
              success |-> success, err |-> "", hit |-> FALSE]

\* PrintCheckResult that records what it saw in the cache.
PrintCheckResult_Records(st, app) ==
    IF app.Type # TypeCheck
    THEN [st |-> st, err |-> "TypeMismatch"]
    ELSE [st |-> [st EXCEPT !.prints = @ + 1,
                            !.cache = MapSet(st.cache, app.Name,
                                             procOutcome[app.Name] = "exit0")],
          err |-> CASE procOutcome[app.Name] = "exit0" -> ""
                    [] procOutcome[app.Name] = "exit1" -> "ExitError"
                    [] OTHER -> "StartFailure"]

\* PrintCheckResult that answers from the cache when the check has a recorded
\* result, without running the command.
PrintCheckResult_UsesCache(st, app) ==
    IF app.Type # TypeCheck
    THEN [st |-> st, err |-> "TypeMismatch"]
    ELSE IF app.Name \in DOMAIN st.cache
    THEN [st |-> st, err |-> IF st.cache[app.Name] THEN "" ELSE "ExitError"]
    ELSE [st |-> [st EXCEPT !.prints = @ + 1],
          err |-> RunError(procOutcome[app.Name])]

\* Executor.PrintCheckResult: [st, err]; it neither reads nor writes the cache
\* and does not look at dryRun.
PrintCheckResult(st, app) ==
    IF app.Type # TypeCheck
    THEN [st |-> st, err |-> "TypeMismatch"]
    ELSE [st |-> [st EXCEPT !.prints = @ + 1],
          err |-> RunError(procOutcome[app.Name])]

\* unicode.IsSpace on the characters the model's strings use.
IsSpace(ch) == ch \in {" ", "\t", "\n", "\r"}

\* strings.Fields: the maximal runs of non-space characters, in order.
RECURSIVE FieldsFrom(_, _, _)
FieldsFrom(s, i, cur) ==
    IF i > Len(s)
    THEN IF cur = <<>> THEN <<>> ELSE <<cur>>
    ELSE IF IsSpace(s[i])
    THEN IF cur = <<>> THEN FieldsFrom(s, i + 1, <<>>)
         ELSE <<cur>> \o FieldsFrom(s, i + 1, <<>>)
    ELSE FieldsFrom(s, i + 1, Append(cur, s[i]))

Fields(s) == FieldsFrom(s, 1, <<>>)

\* parseCommand that hands all the fields on as arguments (parts[0:]).
parseCommand_ArgsFromFirst(cmdStr) ==
    LET parts == Fields(cmdStr)
    IN  IF Len(parts) = 0
        THEN [cmd |-> <<>>, args |-> <<>>, err |-> "EmptyCommand"]
        ELSE [cmd |-> Head(parts), args |-> parts, err |-> ""]

\* Executor.parseCommand
parseCommand(cmdStr) ==
    LET parts == Fields(cmdStr)
    IN  IF Len(parts) = 0
        THEN [cmd |-> <<>>, args |-> <<>>, err |-> "EmptyCommand"]
        ELSE [cmd |-> Head(parts), args |-> Tail(parts), err |-> ""]

\* No parseCommand call has returned yet.
NotCalled == [cmd |-> <<>>, args |-> <<>>, err |-> "NotCalled"]

\* The characters of the command strings parseCommand is tried on: a letter,
\* a quote, a blank and a tab.
CommandChars == {"a", "'", " ", "\t"}

\* The strings over CommandChars of up to n characters.
RECURSIVE CommandStrings(_)
CommandStrings(n) ==
    IF n = 0 THEN {<<>>}
    ELSE CommandStrings(n - 1) \cup
         {Append(s, c) : s \in {t \in CommandStrings(n - 1) : Len(t) = n - 1},
                         c \in CommandChars}

\* The orders in which a range over a Go map with these keys can visit them:
\* every permutation (the order is unspecified and differs between loops).
Orders(keys) ==
    {o \in [1..Cardinality(keys) -> keys] :
        \A i, j \in 1..Cardinality(keys) : o[i] = o[j] => i = j}

\* The loop of resolveCommand without the on_failure branch of lines 148-150.
RECURSIVE resolveLoop_NoFailureBranch(_, _, _, _)
resolveLoop_NoFailureBranch(st, app, order, i) ==
    IF i > Len(order)
    THEN [st |-> st, cmd |-> app.Command, args |-> app.Args, err |-> "",
          consulted |-> order]
    ELSE LET depName == order[i]
             action == app.Dependencies[depName]
             depApp == GetApp(depName)
             seen == SubSeq(order, 1, i)
         IN  IF depApp = 0
             THEN [st |-> st, cmd |-> <<>>, args |-> <<>>,
                   err |-> "DependencyNotFound", consulted |-> seen]
             ELSE IF Apps[depApp].Type # TypeCheck
             THEN [st |-> st, cmd |-> <<>>, args |-> <<>>,
                   err |-> "DependencyWrongType", consulted |-> seen]
             ELSE LET r == ExecuteCheck(st, Apps[depApp])
                  IN  IF r.success /\ action.OnSuccess # <<>>
                      THEN [st |-> r.st, consulted |-> seen]
                           @@ parseCommand(action.OnSuccess)
                      ELSE resolveLoop_NoFailureBranch(r.st, app, order, i + 1)

\* The loop of resolveCommand that goes on to the next dependency when the
\* selected command has no token, in place of returning the error.
RECURSIVE resolveLoop_SkipsBlank(_, _, _, _)
resolveLoop_SkipsBlank(st, app, order, i) ==
    IF i > Len(order)
    THEN [st |-> st, cmd |-> app.Command, args |-> app.Args, err |-> "",
          consulted |-> order]
    ELSE LET depName == order[i]
             action == app.Dependencies[depName]
             depApp == GetApp(depName)
             seen == SubSeq(order, 1, i)
         IN  IF depApp = 0
             THEN [st |-> st, cmd |-> <<>>, args |-> <<>>,
                   err |-> "DependencyNotFound", consulted |-> seen]
             ELSE IF Apps[depApp].Type # TypeCheck
             THEN [st |-> st, cmd |-> <<>>, args |-> <<>>,
                   err |-> "DependencyWrongType", consulted |-> seen]
             ELSE LET r == ExecuteCheck(st, Apps[depApp])
                      selected == IF r.success THEN action.OnSuccess
                                  ELSE action.OnFailure
                  IN  IF selected # <<>> /\ parseCommand(selected).err = ""
                      THEN [st |-> r.st, consulted |-> seen]
                           @@ parseCommand(selected)
                      ELSE resolveLoop_SkipsBlank(r.st, app, order, i + 1)

\* The loop of Executor.resolveCommand from the i-th dependency of the
\* iteration on: [st, cmd, args, err, consulted], consulted being the names
\* the loop has visited, in order.
RECURSIVE resolveLoop(_, _, _, _)
resolveLoop(st, app, order, i) ==
    IF i > Len(order)
    THEN [st |-> st, cmd |-> app.Command, args |-> app.Args, err |-> "",
          consulted |-> order]
    ELSE LET depName == order[i]
             action == app.Dependencies[depName]
             depApp == GetApp(depName)
             seen == SubSeq(order, 1, i)
         IN  IF depApp = 0
             THEN [st |-> st, cmd |-> <<>>, args |-> <<>>,
                   err |-> "DependencyNotFound", consulted |-> seen]
             ELSE IF Apps[depApp].Type # TypeCheck
             THEN [st |-> st, cmd |-> <<>>, args |-> <<>>,
                   err |-> "DependencyWrongType", consulted |-> seen]
             ELSE LET r == ExecuteCheck(st, Apps[depApp])
                  IN  IF r.success /\ action.OnSuccess # <<>>
                      THEN [st |-> r.st, consulted |-> seen]
                           @@ parseCommand(action.OnSuccess)
                      ELSE IF ~r.success /\ action.OnFailure # <<>>
                      THEN [st |-> r.st, consulted |-> seen]
                           @@ parseCommand(action.OnFailure)
                      ELSE resolveLoop(r.st, app, order, i + 1)

\* Every dependency's check run up front, before any selection.
RECURSIVE evaluateAll(_, _, _)
evaluateAll(st, order, i) ==
    IF i > Len(order)
    THEN st
    ELSE LET depApp == GetApp(order[i])
         IN  IF depApp = 0
             THEN evaluateAll(st, order, i + 1)
             ELSE evaluateAll(ExecuteCheck(st, Apps[depApp]).st, order, i + 1)

\* resolveCommand that evaluates all the dependencies first and selects after.
resolveCommand_EvaluatesAll(st, app, order) ==
    IF Cardinality(DOMAIN app.Dependencies) = 0
    THEN [st |-> st, cmd |-> app.Command, args |-> app.Args, err |-> "",
          consulted |-> <<>>]
    ELSE resolveLoop(evaluateAll(st, order, 1), app, order, 1)

\* resolveCommand that returns the default command without its arguments.
resolveCommand_NoArgs(st, app, order) ==
    IF Cardinality(DOMAIN app.Dependencies) = 0
    THEN [st |-> st, cmd |-> app.Command, args |-> <<>>, err |-> "",
          consulted |-> <<>>]
    ELSE resolveLoop(st, app, order, 1)

\* Executor.resolveCommand, the range over app.Dependencies taking `order`.
resolveCommand(st, app, order) ==
    IF Cardinality(DOMAIN app.Dependencies) = 0
    THEN [st |-> st, cmd |-> app.Command, args |-> app.Args, err |-> "",
          consulted |-> <<>>]
    ELSE resolveLoop(st, app, order, 1)

\* The loop of CanExecuteApp with `canExecute = allows` in place of the
\* conditional `canExecute = true`: the dependency visited last decides.
RECURSIVE canExecuteLoop_LastDecides(_, _, _, _, _)
canExecuteLoop_LastDecides(st, app, order, i, canExecute) ==
    IF i > Len(order)
    THEN [st |-> st, ok |-> canExecute, err |-> "", consulted |-> order]
    ELSE LET depName == order[i]
             action == app.Dependencies[depName]
             depApp == GetApp(depName)
             seen == SubSeq(order, 1, i)
         IN  IF depApp = 0
             THEN [st |-> st, ok |-> FALSE, err |-> "DependencyNotFound",
                   consulted |-> seen]
             ELSE IF Apps[depApp].Type # TypeCheck
             THEN [st |-> st, ok |-> FALSE, err |-> "DependencyWrongType",
                   consulted |-> seen]
             ELSE LET r == ExecuteCheck(st, Apps[depApp])
                      allows == \/ r.success /\ action.OnSuccess # <<>>
                                \/ ~r.success /\ action.OnFailure # <<>>
                  IN  canExecuteLoop_LastDecides(r.st, app, order, i + 1, allows)

\* The loop of CanExecuteApp returning true at the first satisfied dependency.
RECURSIVE canExecuteLoop_ShortCircuit(_, _, _, _, _)
canExecuteLoop_ShortCircuit(st, app, order, i, canExecute) ==
    IF i > Len(order)
    THEN [st |-> st, ok |-> canExecute, err |-> "", consulted |-> order]
    ELSE LET depName == order[i]
             action == app.Dependencies[depName]
             depApp == GetApp(depName)
             seen == SubSeq(order, 1, i)
         IN  IF depApp = 0
             THEN [st |-> st, ok |-> FALSE, err |-> "DependencyNotFound",
                   consulted |-> seen]
             ELSE IF Apps[depApp].Type # TypeCheck
             THEN [st |-> st, ok |-> FALSE, err |-> "DependencyWrongType",
                   consulted |-> seen]
             ELSE LET r == ExecuteCheck(st, Apps[depApp])
                      allows == \/ r.success /\ action.OnSuccess # <<>>
                                \/ ~r.success /\ action.OnFailure # <<>>
                  IN  IF allows
                      THEN [st |-> r.st, ok |-> TRUE, err |-> "", consulted |-> seen]
                      ELSE canExecuteLoop_ShortCircuit(r.st, app, order, i + 1,
                                                       canExecute)

\* The loop of CanExecuteApp that passes over a dependency that is no check
\* app (`continue` in place of the two error returns).
RECURSIVE canExecuteLoop_SkipsNoCheck(_, _, _, _, _)
canExecuteLoop_SkipsNoCheck(st, app, order, i, canExecute) ==
    IF i > Len(order)
    THEN [st |-> st, ok |-> canExecute, err |-> "", consulted |-> order]
    ELSE LET depName == order[i]
             action == app.Dependencies[depName]
             depApp == GetApp(depName)
         IN  IF depApp = 0 \/ Apps[depApp].Type # TypeCheck
             THEN canExecuteLoop_SkipsNoCheck(st, app, order, i + 1, canExecute)
             ELSE LET r == ExecuteCheck(st, Apps[depApp])
                      allows == \/ r.success /\ action.OnSuccess # <<>>
                                \/ ~r.success /\ action.OnFailure # <<>>
                  IN  canExecuteLoop_SkipsNoCheck(r.st, app, order, i + 1,
                                                  canExecute \/ allows)

\* The loop of Executor.CanExecuteApp from the i-th dependency on:
\* [st, ok, err, consulted].
RECURSIVE canExecuteLoop(_, _, _, _, _)
canExecuteLoop(st, app, order, i, canExecute) ==
    IF i > Len(order)
    THEN [st |-> st, ok |-> canExecute, err |-> "", consulted |-> order]
    ELSE LET depName == order[i]
             action == app.Dependencies[depName]
             depApp == GetApp(depName)
             seen == SubSeq(order, 1, i)
         IN  IF depApp = 0
             THEN [st |-> st, ok |-> FALSE, err |-> "DependencyNotFound",
                   consulted |-> seen]
             ELSE IF Apps[depApp].Type # TypeCheck
             THEN [st |-> st, ok |-> FALSE, err |-> "DependencyWrongType",
                   consulted |-> seen]
             ELSE LET r == ExecuteCheck(st, Apps[depApp])
                      allows == \/ r.success /\ action.OnSuccess # <<>>
                                \/ ~r.success /\ action.OnFailure # <<>>
                  IN  canExecuteLoop(r.st, app, order, i + 1, canExecute \/ allows)

\* CanExecuteApp whose canExecute starts true.
CanExecuteApp_StartsTrue(st, app, order) ==
    IF Cardinality(DOMAIN app.Dependencies) = 0
    THEN [st |-> st, ok |-> TRUE, err |-> "", consulted |-> <<>>]
    ELSE canExecuteLoop(st, app, order, 1, TRUE)

\* Executor.CanExecuteApp, the range over app.Dependencies taking `order`.
CanExecuteApp(st, app, order) ==
    IF Cardinality(DOMAIN app.Dependencies) = 0
    THEN [st |-> st, ok |-> TRUE, err |-> "", consulted |-> <<>>]
    ELSE canExecuteLoop(st, app, order, 1, FALSE)

\* ExecuteApp without the test of app.Type: every app is resolved and started.
ExecuteApp_NoTypeCheck(st, app, order, startOk) ==
    LET r == resolveCommand(st, app, order)
    IN  IF r.err # ""
        THEN [st |-> r.st, cmd |-> <<>>, args |-> <<>>, err |-> r.err,
              consulted |-> r.consulted, launched |-> FALSE]
        ELSE [st |-> r.st, cmd |-> r.cmd, args |-> r.args,
              err |-> IF dryRun \/ startOk THEN "" ELSE "StartFailure",
              consulted |-> r.consulted, launched |-> ~dryRun /\ startOk]

\* Executor.ExecuteApp: [st, cmd, args, err, consulted, launched]; startOk is
\* whether execCmd.Start() succeeds.
ExecuteApp(st, app, order, startOk) ==
    IF app.Type # TypeExecutable
    THEN [st |-> st, cmd |-> <<>>, args |-> <<>>, err |-> "TypeMismatch",
          consulted |-> <<>>, launched |-> FALSE]
    ELSE LET r == resolveCommand(st, app, order)
         IN  IF r.err # ""
             THEN [st |-> r.st, cmd |-> <<>>, args |-> <<>>, err |-> r.err,
                   consulted |-> r.consulted, launched |-> FALSE]
             ELSE IF dryRun
             THEN [st |-> r.st, cmd |-> r.cmd, args |-> r.args, err |-> "",
                   consulted |-> r.consulted, launched |-> FALSE]
             ELSE IF ~startOk
             THEN [st |-> r.st, cmd |-> r.cmd, args |-> r.args,
                   err |-> "StartFailure", consulted |-> r.consulted,
                   launched |-> FALSE]
             ELSE [st |-> r.st, cmd |-> r.cmd, args |-> r.args, err |-> "",
                   consulted |-> r.consulted, launched |-> TRUE]

\* ------------------------------------------------------------- the run

NoCall ==
    \* now: what the check's command gives at the time of an ExecuteCheck call;
    \* order: the iteration order the call's range loop took; consulted: the
    \* dependencies it visited; fresh: the names the call added to the cache;
    \* logged: the failure lines of the checks the call ran.
    [op |-> "none", app |-> "", ok |-> FALSE, err |-> "", cmd |-> <<>>,
     args |-> <<>>, hit |-> FALSE, now |-> "", order |-> <<>>,
     consulted |-> <<>>, fresh |-> {}, logged |-> {}]

\* The Executor's state after a call that left `st`.
Commit(st) ==
    /\ checkCache' = st.cache
    /\ spawnCount' = st.spawn
    /\ firstResult' = st.first
    /\ lastResult' = st.last
    /\ printCount' = st.prints

\* The names a call that left `st` added to the cache.
Fresh(st) == (DOMAIN st.cache) \ (DOMAIN checkCache)

SpawnRoom == \A n \in DOMAIN spawnCount : spawnCount[n] < MaxSpawn

\* NewExecutor has made the Executor over the loaded configuration, with -r
\* given or not: an empty cache, nothing run.
NewExecutor ==
    /\ dryRun \in BOOLEAN
    /\ checkCache = EmptyMap
    /\ procOutcome \in [CheckNames(Apps) -> Outcomes]
    /\ spawnCount = [n \in CheckNames(Apps) |-> 0]
    /\ firstResult = EmptyMap
    /\ lastResult = EmptyMap
    /\ printCount = 0
    /\ launchCount = 0
    /\ ret = NoCall

\* 1 for a flag that was given, 0 for one that was not.
Given(b) == IF b THEN 1 ELSE 0

\* The CLI struct after flag.Parse(), for a command line with -l, -L,
\* -e <e>, -c <c>, -g <g>, -r, -f <path> given or not and n positional
\* arguments; NFlag is flag.NFlag() and NArg is len(flag.Args()).  -t, -v and
\* -d are not given.
CommandLine(l, L, e, c, g, r, f, n) ==
    [listApps |-> l, listAppsDetailed |-> L, checkApp |-> e, appName |-> c,
     groupTag |-> g, dryRun |-> r,
     NFlag |-> Given(l) + Given(L) + Given(e # "") + Given(c # "")
                 + Given(g # "") + Given(r) + Given(f),
     NArg |-> n]

\* The command lines main is run with.
CommandLines ==
    {CommandLine(l, L, e, c, g, r, f, n) :
        l \in BOOLEAN, L \in BOOLEAN, e \in {"", "chkA", "plain", "nosuch"},
        c \in {"", "two", "nosuch"}, g \in {"", "core"}, r \in BOOLEAN,
        f \in BOOLEAN, n \in {0, 1}}

\* `hasAction` of ParseArgs.
HasAction(c) ==
    \/ c.listApps \/ c.listAppsDetailed
    \/ c.checkApp # "" \/ c.appName # "" \/ c.groupTag # ""
    \/ c.NArg > 0

\* ParseArgs that never shows the usage: a bare invocation goes on with the
\* default configuration file.
ShowsUsage_Never(c) == FALSE

\* ParseArgs prints the usage and exits: no action and no flag at all.
ShowsUsage(c) == ~HasAction(c) /\ c.NFlag = 0

\* main's choice of apps, for listing and for launching: -c names an app
\* that is not there.
AppNotFound(c) == c.appName # "" /\ GetApp(c.appName) = 0

\* main's choice of apps, for listing and for launching: the app -c names,
\* else the apps with the tag -g names, else all the apps.
ChosenApps(c) ==
    IF c.appName # "" THEN <<GetApp(c.appName)>>
    ELSE IF c.groupTag # "" THEN GetAppsByTag(c.groupTag)
    ELSE [i \in 1..Len(Apps) |-> i]

\* The CLI struct when main's command line is not modelled.
NoCommandLine == CommandLine(FALSE, FALSE, "", "", "", FALSE, FALSE, 0)

\* main has not called os.Exit.
Running == -1

\* No launched process has ended: none with status 0, none with another.
NoneExited == [zero |-> 0, nonzero |-> 0]

\* main is not modelled from its command line on: no usage printed, no exit.
NoMain ==
    /\ cli = NoCommandLine
    /\ usagePrinted = FALSE
    /\ exitStatus = Running
    /\ exited = NoneExited

\* No batch is run: the Executor's operations are called one by one.
NoBatch ==
    /\ appsToLaunch = <<>>
    /\ pos = 0
    /\ pc = "api"
    /\ successCount = 0
    /\ failureCount = 0
    /\ skippedCount = 0

\* parseCommand is not called on its own.
NoParse ==
    /\ parseInput = <<>>
    /\ parsed = NotCalled

\* LoadConfig has accepted the configuration, and NewExecutor has made the
\* Executor over it.
Init ==
    /\ config = "valid"
    /\ validateConfig(ValidApps)
    /\ NewExecutor
    /\ NoBatch
    /\ NoParse
    /\ NoMain

\* A call of Executor.ExecuteCheck on an app of the configuration.
ExecuteCheckCall ==
    /\ SpawnRoom
    /\ \E a \in 1..Len(Apps) :
        \E r \in {ExecuteCheck(ExecState, Apps[a])} :
            /\ Commit(r.st)
            /\ ret' = [NoCall EXCEPT !.op = "ExecuteCheck", !.app = Apps[a].Name,
                                     !.ok = r.success, !.err = r.err, !.hit = r.hit,
                                     !.now = IF Apps[a].Type = TypeCheck
                                             THEN procOutcome[Apps[a].Name]
                                             ELSE "",
                                     !.fresh = Fresh(r.st), !.logged = r.st.log]
    /\ UNCHANGED <<config, dryRun, procOutcome, launchCount, batchVars, parseVars, mainVars>>

\* A call of Executor.ResolveCommand on an app of the configuration.
ResolveCommandCall ==
    /\ SpawnRoom
    /\ \E a \in 1..Len(Apps) : \E order \in Orders(DOMAIN Apps[a].Dependencies) :
        \E r \in {resolveCommand(ExecState, Apps[a], order)} :
            /\ Commit(r.st)
            /\ ret' = [NoCall EXCEPT !.op = "ResolveCommand", !.app = Apps[a].Name,
                                     !.ok = (r.err = ""), !.err = r.err,
                                     !.cmd = r.cmd, !.args = r.args,
                                     !.order = order, !.consulted = r.consulted,
                                     !.fresh = Fresh(r.st), !.logged = r.st.log]
    /\ UNCHANGED <<config, dryRun, procOutcome, launchCount, batchVars, parseVars, mainVars>>

\* A call of Executor.CanExecuteApp on an app of the configuration.
CanExecuteAppCall ==
    /\ SpawnRoom
    /\ \E a \in 1..Len(Apps) : \E order \in Orders(DOMAIN Apps[a].Dependencies) :
        \E r \in {CanExecuteApp(ExecState, Apps[a], order)} :
            /\ Commit(r.st)
            /\ ret' = [NoCall EXCEPT !.op = "CanExecuteApp", !.app = Apps[a].Name,
                                     !.ok = r.ok, !.err = r.err,
                                     !.order = order, !.consulted = r.consulted,
                                     !.fresh = Fresh(r.st), !.logged = r.st.log]
    /\ UNCHANGED <<config, dryRun, procOutcome, launchCount, batchVars, parseVars, mainVars>>

\* A call of Executor.ExecuteApp on an app of the configuration.
ExecuteAppCall ==
    /\ SpawnRoom
    /\ launchCount < MaxLaunch
    /\ \E a \in 1..Len(Apps) : \E order \in Orders(DOMAIN Apps[a].Dependencies) :
       \E startOk \in BOOLEAN :
        \E r \in {ExecuteApp(ExecState, Apps[a], order, startOk)} :
            /\ Commit(r.st)
            /\ launchCount' = IF r.launched THEN launchCount + 1 ELSE launchCount
            /\ ret' = [NoCall EXCEPT !.op = "ExecuteApp", !.app = Apps[a].Name,
                                     !.ok = (r.err = ""), !.err = r.err,
                                     !.cmd = r.cmd, !.args = r.args,
                                     !.order = order, !.consulted = r.consulted,
                                     !.fresh = Fresh(r.st), !.logged = r.st.log]
    /\ UNCHANGED <<config, dryRun, procOutcome, batchVars, parseVars, mainVars>>

\* A call of Executor.PrintCheckResult on an app of the configuration.
PrintCheckResultCall ==
    /\ SpawnRoom
    /\ printCount < MaxPrint
    /\ \E a \in 1..Len(Apps) :
        \E r \in {PrintCheckResult(ExecState, Apps[a])} :
            /\ Commit(r.st)
            /\ ret' = [NoCall EXCEPT !.op = "PrintCheckResult", !.app = Apps[a].Name,
                                     !.ok = (r.err = ""), !.err = r.err,
                                     !.now = IF Apps[a].Type = TypeCheck
                                             THEN procOutcome[Apps[a].Name]
                                             ELSE "",
                                     !.fresh = Fresh(r.st), !.logged = r.st.log]
    /\ UNCHANGED <<config, dryRun, procOutcome, launchCount, batchVars, parseVars, mainVars>>

\* The world changes between two calls: a check's command now ends otherwise.
EnvChange ==
    /\ \E n \in DOMAIN procOutcome : \E o \in Outcomes \ {procOutcome[n]} :
        procOutcome' = [procOutcome EXCEPT ![n] = o]
    /\ UNCHANGED <<config, dryRun, checkCache, spawnCount, firstResult, lastResult,
                   printCount, launchCount, ret, batchVars, parseVars, mainVars>>

Next ==
    \/ ExecuteCheckCall
    \/ ResolveCommandCall
    \/ CanExecuteAppCall
    \/ ExecuteAppCall
    \/ EnvChange

\* One run under every sequence of ExecuteCheck, ResolveCommand, CanExecuteApp
\* and ExecuteApp calls.
Spec == Init /\ [][Next]_vars

\* NewExecutor has made the Executor over a Config that validateConfig would
\* reject.
InitUnvalidated ==
    /\ config = "unvalidated"
    /\ ~validateConfig(UnvalidatedApps)
    /\ NewExecutor
    /\ NoBatch
    /\ NoParse
    /\ NoMain

\* One run of the four operations over the unvalidated Config.
SpecUnvalidated == InitUnvalidated /\ [][Next]_vars

\* LoadConfig has read one of the generated configuration files and
\* validateConfig has accepted it.
InitConfigs ==
    /\ config \in DOMAIN GeneratedDeps
    /\ validateConfig(Apps)
    /\ NewExecutor
    /\ NoBatch
    /\ NoParse
    /\ NoMain

\* One run of the operations over each accepted configuration of the family.
SpecConfigs == InitConfigs /\ [][Next]_vars

NextPrint ==
    \/ ExecuteCheckCall
    \/ ResolveCommandCall
    \/ CanExecuteAppCall
    \/ ExecuteAppCall
    \/ PrintCheckResultCall
    \/ EnvChange

\* One run under every sequence of calls of the five operations.
SpecPrint == Init /\ [][NextPrint]_vars

\* ------------------------------------------------------------- main.go

\* The lists main can hand to the batch loop: all the apps (no selection),
\* one app (-c name), or the apps with a tag (-g tag).
Selections ==
    {[i \in 1..Len(Apps) |-> i]}
        \cup {<<i>> : i \in 1..Len(Apps)}
        \cup {GetAppsByTag(tag) : tag \in {"net", "late", "core"}}

\* The app the batch loop is at.
BatchApp == Apps[appsToLaunch[pos]]

\* What a batch step leaves of the Executor's own variables alone.
BatchFrame ==
    UNCHANGED <<config, dryRun, procOutcome, appsToLaunch, parseVars, cli,
                usagePrinted, exited>>

\* BatchSkipCheck that evaluates the check before counting it as skipped.
BatchSkipCheck_Evaluates ==
    /\ pc = "loop" /\ pos <= Len(appsToLaunch)
    /\ BatchApp.Type = TypeCheck
    /\ \E r \in {ExecuteCheck(ExecState, BatchApp)} :
        /\ Commit(r.st)
        /\ ret' = [NoCall EXCEPT !.op = "ExecuteCheck", !.app = BatchApp.Name,
                                 !.ok = r.success, !.err = r.err, !.hit = r.hit,
                                 !.now = procOutcome[BatchApp.Name],
                                 !.fresh = Fresh(r.st), !.logged = r.st.log]
    /\ skippedCount' = skippedCount + 1
    /\ pos' = pos + 1
    /\ UNCHANGED <<launchCount, pc, successCount, failureCount, exitStatus>>
    /\ BatchFrame

\* The loop body on a check app: skipped, not evaluated.
BatchSkipCheck ==
    /\ pc = "loop" /\ pos <= Len(appsToLaunch)
    /\ BatchApp.Type = TypeCheck
    /\ skippedCount' = skippedCount + 1
    /\ pos' = pos + 1
    /\ UNCHANGED <<checkCache, spawnCount, firstResult, lastResult, printCount,
                   launchCount, ret, pc, successCount, failureCount, exitStatus>>
    /\ BatchFrame

\* BatchGate that ends the run on a dependency error (os.Exit in place of
\* `continue`).
BatchGate_ExitsOnError ==
    /\ pc = "loop" /\ pos <= Len(appsToLaunch)
    /\ BatchApp.Type # TypeCheck
    /\ \E order \in Orders(DOMAIN BatchApp.Dependencies) :
        \E r \in {CanExecuteApp(ExecState, BatchApp, order)} :
            /\ Commit(r.st)
            /\ ret' = [NoCall EXCEPT !.op = "CanExecuteApp", !.app = BatchApp.Name,
                                     !.ok = r.ok, !.err = r.err,
                                     !.order = order, !.consulted = r.consulted,
                                     !.fresh = Fresh(r.st), !.logged = r.st.log]
            /\ failureCount' = IF r.err # "" THEN failureCount + 1 ELSE failureCount
            /\ skippedCount' = IF r.err = "" /\ ~r.ok THEN skippedCount + 1
                               ELSE skippedCount
            /\ pos' = IF r.err = "" /\ ~r.ok THEN pos + 1 ELSE pos
            /\ pc' = IF r.err # "" THEN "done"
                     ELSE IF r.ok THEN "launch" ELSE "loop"
    /\ UNCHANGED <<launchCount, successCount, exitStatus>>
    /\ BatchFrame

\* BatchGate that counts an app whose gate failed with an error as skipped.
BatchGate_ErrorIsSkip ==
    /\ pc = "loop" /\ pos <= Len(appsToLaunch)
    /\ BatchApp.Type # TypeCheck
    /\ \E order \in Orders(DOMAIN BatchApp.Dependencies) :
        \E r \in {CanExecuteApp(ExecState, BatchApp, order)} :
            /\ Commit(r.st)
            /\ ret' = [NoCall EXCEPT !.op = "CanExecuteApp", !.app = BatchApp.Name,
                                     !.ok = r.ok, !.err = r.err,
                                     !.order = order, !.consulted = r.consulted,
                                     !.fresh = Fresh(r.st), !.logged = r.st.log]
            /\ skippedCount' = IF r.err # "" \/ ~r.ok THEN skippedCount + 1
                               ELSE skippedCount
            /\ pos' = IF r.err # "" \/ ~r.ok THEN pos + 1 ELSE pos
            /\ pc' = IF r.err = "" /\ r.ok THEN "launch" ELSE "loop"
    /\ UNCHANGED <<launchCount, successCount, failureCount, exitStatus>>
    /\ BatchFrame

\* BatchGate that goes on to ExecuteApp also when the gate denied the app.
BatchGate_LaunchesDenied ==
    /\ pc = "loop" /\ pos <= Len(appsToLaunch)
    /\ BatchApp.Type # TypeCheck
    /\ \E order \in Orders(DOMAIN BatchApp.Dependencies) :
        \E r \in {CanExecuteApp(ExecState, BatchApp, order)} :
            /\ Commit(r.st)
            /\ ret' = [NoCall EXCEPT !.op = "CanExecuteApp", !.app = BatchApp.Name,
                                     !.ok = r.ok, !.err = r.err,
                                     !.order = order, !.consulted = r.consulted,
                                     !.fresh = Fresh(r.st), !.logged = r.st.log]
            /\ failureCount' = IF r.err # "" THEN failureCount + 1 ELSE failureCount
            /\ pos' = IF r.err # "" THEN pos + 1 ELSE pos
            /\ pc' = IF r.err = "" THEN "launch" ELSE "loop"
    /\ UNCHANGED <<launchCount, successCount, skippedCount, exitStatus>>
    /\ BatchFrame

\* BatchGate that moves on from a denied app without counting it.
BatchGate_DeniedUncounted ==
    /\ pc = "loop" /\ pos <= Len(appsToLaunch)
    /\ BatchApp.Type # TypeCheck
    /\ \E order \in Orders(DOMAIN BatchApp.Dependencies) :
        \E r \in {CanExecuteApp(ExecState, BatchApp, order)} :
            /\ Commit(r.st)
            /\ ret' = [NoCall EXCEPT !.op = "CanExecuteApp", !.app = BatchApp.Name,
                                     !.ok = r.ok, !.err = r.err,
                                     !.order = order, !.consulted = r.consulted,
                                     !.fresh = Fresh(r.st), !.logged = r.st.log]
            /\ failureCount' = IF r.err # "" THEN failureCount + 1 ELSE failureCount
            /\ pos' = IF r.err # "" \/ ~r.ok THEN pos + 1 ELSE pos
            /\ pc' = IF r.err = "" /\ r.ok THEN "launch" ELSE "loop"
    /\ UNCHANGED <<launchCount, successCount, skippedCount, exitStatus>>
    /\ BatchFrame

\* The loop body on an executable up to the gate: CanExecuteApp; an error
\* counts as a failure, a denial as skipped, and both end the app.
BatchGate ==
    /\ pc = "loop" /\ pos <= Len(appsToLaunch)
    /\ BatchApp.Type # TypeCheck
    /\ \E order \in Orders(DOMAIN BatchApp.Dependencies) :
        \E r \in {CanExecuteApp(ExecState, BatchApp, order)} :
            /\ Commit(r.st)
            /\ ret' = [NoCall EXCEPT !.op = "CanExecuteApp", !.app = BatchApp.Name,
                                     !.ok = r.ok, !.err = r.err,
                                     !.order = order, !.consulted = r.consulted,
                                     !.fresh = Fresh(r.st), !.logged = r.st.log]
            /\ failureCount' = IF r.err # "" THEN failureCount + 1 ELSE failureCount
            /\ skippedCount' = IF r.err = "" /\ ~r.ok THEN skippedCount + 1
                               ELSE skippedCount
            /\ pos' = IF r.err # "" \/ ~r.ok THEN pos + 1 ELSE pos
            /\ pc' = IF r.err = "" /\ r.ok THEN "launch" ELSE "loop"
    /\ UNCHANGED <<launchCount, successCount, exitStatus>>
    /\ BatchFrame

\* BatchLaunch that does not move on to the next app.
BatchLaunch_StaysOnApp ==
    /\ pc = "launch"
    /\ \E order \in Orders(DOMAIN BatchApp.Dependencies) : \E startOk \in BOOLEAN :
        \E r \in {ExecuteApp(ExecState, BatchApp, order, startOk)} :
            /\ Commit(r.st)
            /\ launchCount' = IF r.launched THEN launchCount + 1 ELSE launchCount
            /\ ret' = [NoCall EXCEPT !.op = "ExecuteApp", !.app = BatchApp.Name,
                                     !.ok = (r.err = ""), !.err = r.err,
                                     !.cmd = r.cmd, !.args = r.args,
                                     !.order = order, !.consulted = r.consulted,
                                     !.fresh = Fresh(r.st), !.logged = r.st.log]
            /\ failureCount' = IF r.err # "" THEN failureCount + 1 ELSE failureCount
            /\ successCount' = IF r.err = "" THEN successCount + 1 ELSE successCount
    /\ pos' = pos
    /\ pc' = "loop"
    /\ UNCHANGED <<skippedCount, exitStatus>>
    /\ BatchFrame

\* The rest of the loop body on an executable the gate allowed: ExecuteApp;
\* an error counts as a failure, no error as a success.
BatchLaunch ==
    /\ pc = "launch"
    /\ \E order \in Orders(DOMAIN BatchApp.Dependencies) : \E startOk \in BOOLEAN :
        \E r \in {ExecuteApp(ExecState, BatchApp, order, startOk)} :
            /\ Commit(r.st)
            /\ launchCount' = IF r.launched THEN launchCount + 1 ELSE launchCount
            /\ ret' = [NoCall EXCEPT !.op = "ExecuteApp", !.app = BatchApp.Name,
                                     !.ok = (r.err = ""), !.err = r.err,
                                     !.cmd = r.cmd, !.args = r.args,
                                     !.order = order, !.consulted = r.consulted,
                                     !.fresh = Fresh(r.st), !.logged = r.st.log]
            /\ failureCount' = IF r.err # "" THEN failureCount + 1 ELSE failureCount
            /\ successCount' = IF r.err = "" THEN successCount + 1 ELSE successCount
    /\ pos' = pos + 1
    /\ pc' = "loop"
    /\ UNCHANGED <<skippedCount, exitStatus>>
    /\ BatchFrame

\* BatchExit that takes the processes it launched down with it.
BatchExit_KillsChildren ==
    /\ pc = "loop" /\ pos > Len(appsToLaunch)
    /\ pc' = "done"
    /\ exitStatus' = IF failureCount > 0 THEN 1 ELSE 0
    /\ exited' = [exited EXCEPT !.nonzero = launchCount - exited.zero]
    /\ UNCHANGED <<checkCache, spawnCount, firstResult, lastResult, printCount,
                   launchCount, ret, pos, successCount, failureCount, skippedCount>>
    /\ UNCHANGED <<config, dryRun, procOutcome, appsToLaunch, parseVars, cli,
                   usagePrinted>>

\* The loop is over: the summary and os.Exit, with status 1 when a failure
\* was counted and 0 otherwise.
BatchExit ==
    /\ pc = "loop" /\ pos > Len(appsToLaunch)
    /\ pc' = "done"
    /\ exitStatus' = IF failureCount > 0 THEN 1 ELSE 0
    /\ UNCHANGED <<checkCache, spawnCount, firstResult, lastResult, printCount,
                   launchCount, ret, pos, successCount, failureCount, skippedCount>>
    /\ BatchFrame

\* The world changes while the batch runs.
BatchEnvChange == pc # "done" /\ EnvChange

\* main has loaded the configuration, made the Executor and chosen the apps
\* to launch; the counts are zero.
InitBatch ==
    /\ config = "valid"
    /\ validateConfig(ValidApps)
    /\ NewExecutor
    /\ appsToLaunch \in Selections
    /\ pos = 1
    /\ pc = "loop"
    /\ successCount = 0
    /\ failureCount = 0
    /\ skippedCount = 0
    /\ NoParse
    /\ NoMain

\* A step of main's loop.
BatchStep ==
    \/ BatchSkipCheck
    \/ BatchGate
    \/ BatchLaunch
    \/ BatchExit

NextBatch ==
    \/ BatchStep
    \/ BatchEnvChange

\* One run of main in batch mode; main is a sequential program that keeps
\* taking its next step, and every call it makes returns.
SpecBatch == InitBatch /\ [][NextBatch]_vars /\ WF_vars(BatchStep)

\* A process ExecuteApp started ends by itself, with some exit status, while
\* the batch runs or after main has exited: ExecuteApp started it in a
\* process group of its own and never waits for it.
ChildExits ==
    /\ exited.zero + exited.nonzero < launchCount
    /\ \/ exited' = [exited EXCEPT !.zero = @ + 1]
       \/ exited' = [exited EXCEPT !.nonzero = @ + 1]
    /\ UNCHANGED <<config, dryRun, checkCache, procOutcome, spawnCount, firstResult,
                   lastResult, printCount, launchCount, ret, batchVars, parseVars,
                   cli, usagePrinted, exitStatus>>

NextDetached ==
    \/ BatchStep
    \/ BatchEnvChange
    \/ ChildExits

\* One run of main in batch mode together with the processes it launched.
SpecDetached == InitBatch /\ [][NextDetached]_vars

\* ------------------------------------------------- main, from its command line

\* What a step of main before the batch loop leaves alone.
MainFrame ==
    UNCHANGED <<config, dryRun, procOutcome, launchCount, successCount,
                failureCount, skippedCount, parseVars, cli, exited>>

\* os.Exit(status) with the Executor untouched.
ExitWith(status) ==
    /\ exitStatus' = status
    /\ pc' = "done"
    /\ UNCHANGED <<checkCache, spawnCount, firstResult, lastResult, printCount,
                   ret, appsToLaunch, pos>>

\* ParseArgs on a command line with no action and no flag: the usage, and
\* os.Exit(0), before the configuration is read.
MainUsage ==
    /\ pc = "start"
    /\ ShowsUsage(cli)
    /\ usagePrinted' = TRUE
    /\ ExitWith(0)
    /\ MainFrame

\* ParseArgs returned and main went on.
Parsed == pc = "start" /\ ~ShowsUsage(cli)

\* LoadConfig returns an error: main reports it and exits with status 1.
MainLoadError ==
    /\ Parsed
    /\ config = "missing"
    /\ ExitWith(1)
    /\ UNCHANGED usagePrinted
    /\ MainFrame

\* -l: the names of the chosen executables are printed.
MainList ==
    /\ Parsed
    /\ config = "valid"
    /\ cli.listApps
    /\ ExitWith(IF AppNotFound(cli) THEN 1 ELSE 0)
    /\ UNCHANGED usagePrinted
    /\ MainFrame

\* -L: the chosen apps are taken for the detailed listing.
MainDetail ==
    /\ Parsed
    /\ config = "valid"
    /\ ~cli.listApps /\ cli.listAppsDetailed
    /\ IF AppNotFound(cli)
       THEN ExitWith(1)
       ELSE /\ appsToLaunch' = ChosenApps(cli)
            /\ pos' = 1
            /\ pc' = "detail"
            /\ UNCHANGED <<checkCache, spawnCount, firstResult, lastResult,
                           printCount, ret, exitStatus>>
    /\ UNCHANGED usagePrinted
    /\ MainFrame

\* The detailed listing's loop: ResolveCommand on each executable of the
\* list, nothing for a check app, and os.Exit(0) after the last.
MainDetailStep ==
    /\ pc = "detail"
    /\ IF pos > Len(appsToLaunch)
       THEN /\ exitStatus' = 0
            /\ pc' = "done"
            /\ UNCHANGED <<checkCache, spawnCount, firstResult, lastResult,
                           printCount, ret, pos>>
       ELSE /\ pos' = pos + 1
            /\ UNCHANGED <<pc, exitStatus>>
            /\ IF BatchApp.Type # TypeExecutable
               THEN UNCHANGED <<checkCache, spawnCount, firstResult, lastResult,
                                printCount, ret>>
               ELSE \E order \in Orders(DOMAIN BatchApp.Dependencies) :
                    \E r \in {resolveCommand(ExecState, BatchApp, order)} :
                        /\ Commit(r.st)
                        /\ ret' = [NoCall EXCEPT !.op = "ResolveCommand",
                                                 !.app = BatchApp.Name,
                                                 !.ok = (r.err = ""), !.err = r.err,
                                                 !.cmd = r.cmd, !.args = r.args,
                                                 !.order = order,
                                                 !.consulted = r.consulted,
                                                 !.fresh = Fresh(r.st),
                                                 !.logged = r.st.log]
    /\ UNCHANGED <<appsToLaunch, usagePrinted>>
    /\ MainFrame

\* -e: PrintCheckResult on the named app when it is there and is a check;
\* status 1 when it is not, and when the check's command did not exit with 0.
MainCheck ==
    /\ Parsed
    /\ config = "valid"
    /\ ~cli.listApps /\ ~cli.listAppsDetailed
    /\ cli.checkApp # ""
    /\ IF GetApp(cli.checkApp) = 0 \/ Apps[GetApp(cli.checkApp)].Type # TypeCheck
       THEN ExitWith(1)
       ELSE \E r \in {PrintCheckResult(ExecState, Apps[GetApp(cli.checkApp)])} :
            /\ Commit(r.st)
            /\ ret' = [NoCall EXCEPT !.op = "PrintCheckResult",
                                     !.app = cli.checkApp,
                                     !.ok = (r.err = ""), !.err = r.err,
                                     !.now = procOutcome[cli.checkApp],
                                     !.fresh = Fresh(r.st), !.logged = r.st.log]
            /\ exitStatus' = IF r.err # "" THEN 1 ELSE 0
            /\ pc' = "done"
            /\ UNCHANGED <<appsToLaunch, pos>>
    /\ UNCHANGED usagePrinted
    /\ MainFrame

\* No listing and no -e: main chooses the apps to launch and enters the loop.
MainSelect ==
    /\ Parsed
    /\ config = "valid"
    /\ ~cli.listApps /\ ~cli.listAppsDetailed
    /\ cli.checkApp = ""
    /\ IF AppNotFound(cli)
       THEN ExitWith(1)
       ELSE /\ appsToLaunch' = ChosenApps(cli)
            /\ pos' = 1
            /\ pc' = "loop"
            /\ UNCHANGED <<checkCache, spawnCount, firstResult, lastResult,
                           printCount, ret, exitStatus>>
    /\ UNCHANGED usagePrinted
    /\ MainFrame

\* main is started on a command line; the configuration file it names, or
\* the default one, is there and valid or is not there.
InitMain ==
    /\ config \in {"valid", "missing"}
    /\ cli \in CommandLines
    /\ NewExecutor
    /\ dryRun = cli.dryRun
    /\ appsToLaunch = <<>>
    /\ pos = 0
    /\ pc = "start"
    /\ successCount = 0
    /\ failureCount = 0
    /\ skippedCount = 0
    /\ NoParse
    /\ usagePrinted = FALSE
    /\ exitStatus = Running
    /\ exited = NoneExited

NextMain ==
    \/ MainUsage
    \/ MainLoadError
    \/ MainList
    \/ MainDetail
    \/ MainDetailStep
    \/ MainCheck
    \/ MainSelect
    \/ BatchStep
    \/ BatchEnvChange

\* One run of main from its command line to os.Exit.
SpecMain == InitMain /\ [][NextMain]_vars

\* A parseCommand call on the command string of this run.
ParseCommandCall ==
    /\ parsed = NotCalled
    /\ parsed' = parseCommand(parseInput)
    /\ UNCHANGED <<config, dryRun, checkCache, procOutcome, spawnCount, firstResult,
                   lastResult, printCount, launchCount, ret, batchVars, parseInput,
                   mainVars>>

\* An Executor over an empty Config and a command string for parseCommand.
InitParse ==
    /\ config = "none"
    /\ NewExecutor
    /\ NoBatch
    /\ NoMain
    /\ parseInput \in CommandStrings(MaxCmdLen)
    /\ parsed = NotCalled

NextParse == ParseCommandCall

\* parseCommand applied to every command string of the bounded set.
SpecParse == InitParse /\ [][NextParse]_vars

\* ---------------------------------------------------------------- claims

\* The app of the configuration with this name.
AppNamed(name) == Apps[GetApp(name)]

\* The name is the name of a check app.
IsCheckName(name) == GetApp(name) # 0 /\ AppNamed(name).Type = TypeCheck

\* What evaluating the check `name` gives in this state: the recorded result,
\* else true in a dry run, else whether its command now exits with status 0.
Evaluates(name) ==
    IF name \in DOMAIN checkCache THEN checkCache[name]
    ELSE IF dryRun THEN TRUE
    ELSE procOutcome[name] = "exit0"

\* The branch of a dependency action that a check result selects.
Branch(action, success) == IF success THEN action.OnSuccess ELSE action.OnFailure

\* The dependency `name` of the app has a satisfied branch in this state.
DepSatisfied(app, name) ==
    /\ IsCheckName(name)
    /\ Branch(app.Dependencies[name], Evaluates(name)) # <<>>

\* What a call returned as command, arguments and error.
Resolved(r) == [cmd |-> r.cmd, args |-> r.args, err |-> r.err]

\* The app has dependencies, all on checks, and none has a satisfied branch.
NoMatch(app) ==
    /\ DOMAIN app.Dependencies # {}
    /\ \A d \in DOMAIN app.Dependencies : IsCheckName(d) /\ ~DepSatisfied(app, d)

\* C1: within one run, under every sequence of ExecuteCheck, ResolveCommand,
\* CanExecuteApp and ExecuteApp calls, the process of each check app is
\* spawned at most once, however many executables depend on it.
C1_CheckSpawnedAtMostOnce ==
    \A n \in DOMAIN spawnCount : spawnCount[n] <= 1

\* A gate over the two dependencies of "two" that found both checks in the
\* cache, each spawned once before; four executables depend on each check.
C1_Witness ==
    /\ ~dryRun
    /\ ret.op = "CanExecuteApp" /\ ret.app = "two" /\ ret.err = ""
    /\ ret.fresh = {}
    /\ spawnCount["chkA"] = 1 /\ spawnCount["chkB"] = 1

\* C2: every ExecuteCheck call on a check after the first one returns the
\* boolean the first one returned, also when the check's command would now
\* end otherwise.
C2_LaterCallsReturnFirstResult ==
    /\ \A n \in DOMAIN lastResult :
        n \in DOMAIN firstResult /\ lastResult[n] = firstResult[n]
    /\ (ret.op = "ExecuteCheck" /\ ret.err = "") =>
        (ret.app \in DOMAIN firstResult /\ ret.ok = firstResult[ret.app])

\* A later call answered from the cache while the command would have given the
\* opposite: true though it now fails.
C2_Witness ==
    /\ ~dryRun
    /\ ret.op = "ExecuteCheck" /\ ret.hit
    /\ ret.ok /\ ret.now = "exit1"

\* C3: the check result cache starts empty and is append-only: no step of
\* ExecuteCheck, ResolveCommand, CanExecuteApp, ExecuteApp or
\* PrintCheckResult changes or removes an entry it holds.
C3_CacheAppendOnly ==
    /\ DOMAIN checkCache = {}
    /\ [][\A n \in DOMAIN checkCache :
            n \in DOMAIN checkCache' /\ checkCache'[n] = checkCache[n]]_vars

\* PrintCheckResult has just seen a check fail whose cached result is true.
C3_Witness ==
    /\ ret.op = "PrintCheckResult" /\ ret.err = "ExitError"
    /\ ret.app \in DOMAIN checkCache /\ checkCache[ret.app]
    /\ Cardinality(DOMAIN checkCache) = 2

\* C4: first match wins.  A ResolveCommand on an executable with dependencies
\* returns what parsing the selected command of the first dependency in
\* iteration order with a satisfied branch gives; the dependencies after it
\* in that order are not consulted: their checks are not run and get no cache
\* entry from the call.  (The dependencies before it are checks.)
C4_FirstMatchWins ==
    [][(ret'.op = "ResolveCommand" /\ ret'.order # <<>>) =>
        \A app \in {AppNamed(ret'.app)} :
        \A hits \in {{i \in 1..Len(ret'.order) : DepSatisfied(app, ret'.order[i])}} :
        hits # {} =>
            \A k \in {CHOOSE i \in hits : \A j \in hits : i <= j} :
                (\A j \in 1..(k - 1) : IsCheckName(ret'.order[j])) =>
                /\ Resolved(ret') =
                     parseCommand(Branch(app.Dependencies[ret'.order[k]],
                                         Evaluates(ret'.order[k])))
                /\ ret'.consulted = SubSeq(ret'.order, 1, k)
                /\ \A j \in (k + 1)..Len(ret'.order) :
                    /\ ret'.order[j] \in DOMAIN checkCache'
                            <=> ret'.order[j] \in DOMAIN checkCache
                    /\ ret'.order[j] \in DOMAIN spawnCount =>
                        spawnCount'[ret'.order[j]] = spawnCount[ret'.order[j]]
      ]_vars

\* "two" resolved with chkA visited first and succeeding: its on_success is
\* returned, split into program and arguments, and chkB has no cache entry.
C4_Witness ==
    /\ ret.op = "ResolveCommand" /\ ret.app = "two"
    /\ ret.order = <<"chkA", "chkB">> /\ ret.consulted = <<"chkA">>
    /\ ret.cmd = <<"Y">> /\ ret.args = << <<"a">>, <<"b">> >>
    /\ "chkB" \notin DOMAIN checkCache
    /\ ~dryRun /\ spawnCount["chkB"] = 0 /\ procOutcome["chkB"] = "exit0"

\* C5: ResolveCommand on an app with an empty dependency map returns exactly
\* the app's default command and arguments, runs no check and leaves the
\* check result cache as it was.
C5_NoDependenciesDefault ==
    [][(ret'.op = "ResolveCommand" /\ DOMAIN AppNamed(ret'.app).Dependencies = {}) =>
        /\ Resolved(ret') = [cmd |-> AppNamed(ret'.app).Command,
                             args |-> AppNamed(ret'.app).Args, err |-> ""]
        /\ checkCache' = checkCache
        /\ spawnCount' = spawnCount
      ]_vars

\* "plain" resolved to its default command and argument while the cache holds
\* just chkA.
C5_Witness ==
    /\ ret.op = "ResolveCommand" /\ ret.app = "plain"
    /\ ret.cmd = <<"p">> /\ ret.args = << <<"-", "v">> >> /\ ret.err = ""
    /\ DOMAIN checkCache = {"chkA"}

\* C6: when every dependency of an executable has an outcome without a
\* corresponding action, ResolveCommand returns the app's default command
\* and arguments, and CanExecuteApp returns false.
C6_NoMatchDefaultAndDenied ==
    [][/\ (ret'.op = "ResolveCommand" /\ NoMatch(AppNamed(ret'.app))) =>
            Resolved(ret') = [cmd |-> AppNamed(ret'.app).Command,
                              args |-> AppNamed(ret'.app).Args, err |-> ""]
       /\ (ret'.op = "CanExecuteApp" /\ NoMatch(AppNamed(ret'.app))) =>
            (ret'.err = "" /\ ~ret'.ok)
      ]_vars

\* "mix" resolved to its default after chkA failed (only on_success set) and
\* chkB succeeded (only on_failure set), both evaluated by this call.
C6_Witness ==
    /\ ret.op = "ResolveCommand" /\ ret.app = "mix"
    /\ ret.fresh = {"chkA", "chkB"}
    /\ ~checkCache["chkA"] /\ checkCache["chkB"]
    /\ ret.cmd = <<"d", "3">> /\ ret.args = << <<"m">> >> /\ ret.err = ""

\* C7: CanExecuteApp, returning without error, returns true exactly when the
\* app has no dependencies or at least one dependency has a satisfied
\* branch; two satisfied dependencies give true as well.
C7_GateIffSomeSatisfied ==
    [][(ret'.op = "CanExecuteApp" /\ ret'.err = "") =>
        LET app == AppNamed(ret'.app)
        IN  ret'.ok = (\/ DOMAIN app.Dependencies = {}
                       \/ \E d \in DOMAIN app.Dependencies : DepSatisfied(app, d))
      ]_vars

\* "mix" allowed with both its dependencies satisfied: chkA succeeded and
\* chkB failed.
C7_Witness ==
    /\ ret.op = "CanExecuteApp" /\ ret.app = "mix" /\ ret.err = "" /\ ret.ok
    /\ ret.fresh = {"chkA", "chkB"}
    /\ checkCache["chkA"] /\ ~checkCache["chkB"]

\* C8: CanExecuteApp does not short-circuit: when it has returned without
\* error, it has visited every dependency of the app and every dependency
\* name has an entry in the check result cache.
C8_GateEvaluatesAll ==
    (ret.op = "CanExecuteApp" /\ ret.err = "") =>
        LET deps == DOMAIN AppNamed(ret.app).Dependencies
        IN  /\ deps \subseteq DOMAIN checkCache
            /\ {ret.consulted[i] : i \in 1..Len(ret.consulted)} = deps

\* "two" gated with chkA first, already satisfied, and chkB evaluated by the
\* same call after it.
C8_Witness ==
    /\ ret.op = "CanExecuteApp" /\ ret.app = "two" /\ ret.err = ""
    /\ ret.order = <<"chkA", "chkB">>
    /\ checkCache["chkA"]
    /\ "chkB" \in ret.fresh

\* The call before was CanExecuteApp on an executable with dependencies and
\* returned true, and this step's call is ResolveCommand on the same app.
GateThenResolve ==
    /\ ret.op = "CanExecuteApp" /\ ret.err = "" /\ ret.ok
    /\ DOMAIN AppNamed(ret.app).Dependencies # {}
    /\ ret'.op = "ResolveCommand" /\ ret'.app = ret.app

\* C9 as stated: a ResolveCommand following a CanExecuteApp that returned
\* true returns, without error, the parsed command of a dependency with a
\* satisfied branch.
C9_Original ==
    [][GateThenResolve =>
        /\ ret'.err = ""
        /\ \E d \in DOMAIN AppNamed(ret.app).Dependencies :
            /\ DepSatisfied(AppNamed(ret.app), d)
            /\ Resolved(ret') =
                 parseCommand(Branch(AppNamed(ret.app).Dependencies[d], Evaluates(d)))
      ]_vars

\* C9 amended: a ResolveCommand following a CanExecuteApp that returned true
\* returns what parsing the selected command of a dependency with a
\* satisfied branch gives: its program and arguments, or the empty-command
\* error when that command is blank; never the default command and never a
\* dependency error.
C9_GateThenResolveSelects ==
    [][GateThenResolve =>
        /\ ret'.err \in {"", "EmptyCommand"}
        /\ \E d \in DOMAIN AppNamed(ret.app).Dependencies :
            /\ DepSatisfied(AppNamed(ret.app), d)
            /\ Resolved(ret') =
                 parseCommand(Branch(AppNamed(ret.app).Dependencies[d], Evaluates(d)))
        /\ Resolved(ret') # [cmd |-> AppNamed(ret.app).Command,
                             args |-> AppNamed(ret.app).Args, err |-> ""]
      ]_vars

\* "blank" resolved to the empty-command error on its blank on_success, with
\* both its checks recorded as succeeded, as its gate leaves them and allows.
C9_Witness ==
    /\ ret.op = "ResolveCommand" /\ ret.app = "blank"
    /\ ret.err = "EmptyCommand" /\ ret.consulted = <<"chkA">>
    /\ ret.fresh = {}
    /\ DOMAIN checkCache = {"chkA", "chkB"}
    /\ checkCache["chkA"] /\ checkCache["chkB"]

\* C10: in dry-run mode ExecuteCheck on a check app spawns no process,
\* returns true and records true in the check result cache, so that later
\* consultations return the recorded true.
C10_DryRunCheckIsTrue ==
    dryRun =>
        /\ \A n \in DOMAIN spawnCount : spawnCount[n] = 0
        /\ \A n \in DOMAIN checkCache : checkCache[n]
        /\ (ret.op = "ExecuteCheck" /\ ret.err = "") =>
            /\ ret.ok
            /\ ret.app \in DOMAIN checkCache /\ checkCache[ret.app]

\* A later dry-run consultation answered true from the cache, of a check
\* whose command could not even be started.
C10_Witness ==
    /\ dryRun
    /\ ret.op = "ExecuteCheck" /\ ret.hit /\ ret.ok
    /\ ret.now = "nostart"
    /\ spawnCount[ret.app] = 0

\* C11: in dry-run mode nothing is run: under every sequence of
\* ExecuteCheck, ResolveCommand, CanExecuteApp, ExecuteApp and
\* PrintCheckResult calls no check command is run, by ExecuteCheck or by
\* PrintCheckResult, and no detached process is started.
C11_DryRunSpawnsNothing ==
    dryRun =>
        /\ \A n \in DOMAIN spawnCount : spawnCount[n] = 0
        /\ printCount = 0
        /\ launchCount = 0

\* C12: an ExecuteCheck call on an app that is no check fails with the
\* type-mismatch error and returns false; it runs no command, starts no
\* process and leaves the check result cache as it was.
C12_NonCheckIsTypeMismatch ==
    [][(ret'.op = "ExecuteCheck" /\ ~IsCheckName(ret'.app)) =>
        /\ ret'.err = "TypeMismatch" /\ ~ret'.ok
        /\ checkCache' = checkCache
        /\ spawnCount' = spawnCount
        /\ launchCount' = launchCount
      ]_vars

\* ExecuteCheck refused the executable "plain" while the cache held both
\* checks, and no entry for "plain" came of it.
C12_Witness ==
    /\ ret.op = "ExecuteCheck" /\ ret.app = "plain"
    /\ ret.err = "TypeMismatch" /\ ~ret.ok
    /\ DOMAIN checkCache = {"chkA", "chkB"}

\* C13: outside dry-run, an ExecuteCheck call on a check with no recorded
\* result runs the check's command once and returns true exactly when the
\* command exits with status 0: false for a non-zero exit status and for a
\* command that could not be started; it returns no error.
C13_TrueIffExitZero ==
    [][(/\ ret'.op = "ExecuteCheck" /\ IsCheckName(ret'.app)
        /\ ret'.app \notin DOMAIN checkCache
        /\ ~dryRun) =>
        /\ ret'.err = ""
        /\ ret'.ok = (procOutcome[ret'.app] = "exit0")
        /\ spawnCount'[ret'.app] = spawnCount[ret'.app] + 1
      ]_vars

\* A first evaluation returned false for a command that could not be started,
\* after the other check's command had exited with 0 and been recorded true.
C13_Witness ==
    /\ ~dryRun
    /\ ret.op = "ExecuteCheck" /\ ~ret.hit /\ ret.app = "chkB"
    /\ ret.now = "nostart" /\ ~ret.ok
    /\ "chkA" \in DOMAIN checkCache /\ checkCache["chkA"]
    /\ spawnCount["chkA"] = 1 /\ spawnCount["chkB"] = 1

\* A check of this call could not be started.
StartFailed(r, name) == FailedLine(name, "StartFailure") \in r.logged

DependencyError(name) ==
    IF GetApp(name) = 0 THEN "DependencyNotFound" ELSE "DependencyWrongType"

\* C15: a CanExecuteApp call, and a ResolveCommand call that found no
\* satisfied branch before it, that comes in its iteration order to a
\* dependency name with no app record fails with the dependency-not-found
\* error, and to one naming an app that is no check with the
\* dependency-wrong-type error.  The call stops there: that name gets no
\* cache entry, nothing is run or recorded for it or for the names after it,
\* no process is launched, and CanExecuteApp returns false with the error.
C15_DependencyErrors ==
    [][(/\ ret'.op \in {"ResolveCommand", "CanExecuteApp"}
        /\ \E i \in 1..Len(ret'.order) : ~IsCheckName(ret'.order[i])) =>
        \A app \in {AppNamed(ret'.app)} :
        \A k \in {CHOOSE i \in 1..Len(ret'.order) :
                    /\ ~IsCheckName(ret'.order[i])
                    /\ \A j \in 1..(i - 1) : IsCheckName(ret'.order[j])} :
            (\/ ret'.op = "CanExecuteApp"
             \/ \A j \in 1..(k - 1) : ~DepSatisfied(app, ret'.order[j])) =>
                /\ ret'.err = DependencyError(ret'.order[k])
                /\ ~ret'.ok
                /\ ret'.cmd = <<>> /\ ret'.args = <<>>
                /\ ret'.consulted = SubSeq(ret'.order, 1, k)
                /\ ret'.order[k] \notin DOMAIN checkCache'
                /\ DOMAIN checkCache' \subseteq
                     (DOMAIN checkCache) \cup {ret'.order[j] : j \in 1..(k - 1)}
                /\ \A n \in DOMAIN spawnCount :
                     spawnCount'[n] # spawnCount[n] =>
                        n \in {ret'.order[j] : j \in 1..(k - 1)}
                /\ launchCount' = launchCount
      ]_vars

\* A gate on "ghost" ran its check chkA first, came to the name no app has,
\* and returned false with the dependency-not-found error.
C15_Witness ==
    /\ config = "unvalidated"
    /\ ret.op = "CanExecuteApp" /\ ret.app = "ghost"
    /\ ret.err = "DependencyNotFound" /\ ~ret.ok
    /\ ret.consulted = <<"chkA", "nosuch">>
    /\ ret.fresh = {"chkA"}
    /\ "nosuch" \notin DOMAIN checkCache

\* A ResolveCommand on "odd" failed with the dependency-wrong-type error on
\* the executable "plain", after its check chkA had no satisfied branch.
C15_WrongTypeReached ==
    /\ config = "unvalidated"
    /\ ret.op = "ResolveCommand" /\ ret.app = "odd"
    /\ ret.err = "DependencyWrongType"
    /\ ret.consulted = <<"chkA", "plain">>

\* The string is not empty and holds white space only.
IsBlank(s) == s # <<>> /\ \A i \in 1..Len(s) : IsSpace(s[i])

\* C16: when the branch of the first dependency in iteration order with a
\* satisfied branch is a non-empty string of white space only, ResolveCommand
\* fails with the empty-command error for the whole app: it returns no
\* command, consults no dependency after that one and does not fall back on
\* the default command; ExecuteApp returns the same error and launches
\* nothing.  (The dependencies before it are checks.)
C16_BlankCommandFailsWholeApp ==
    [][(ret'.op \in {"ResolveCommand", "ExecuteApp"} /\ ret'.order # <<>>) =>
        \A app \in {AppNamed(ret'.app)} :
        \A hits \in {{i \in 1..Len(ret'.order) : DepSatisfied(app, ret'.order[i])}} :
            hits # {} =>
            \A k \in {CHOOSE i \in hits : \A j \in hits : i <= j} :
                (/\ \A j \in 1..(k - 1) : IsCheckName(ret'.order[j])
                 /\ IsBlank(Branch(app.Dependencies[ret'.order[k]],
                                   Evaluates(ret'.order[k])))) =>
                    /\ ret'.err = "EmptyCommand"
                    /\ ret'.cmd = <<>> /\ ret'.args = <<>>
                    /\ ret'.consulted = SubSeq(ret'.order, 1, k)
                    /\ DOMAIN checkCache' \subseteq
                         (DOMAIN checkCache) \cup {ret'.order[j] : j \in 1..k}
                    /\ launchCount' = launchCount
      ]_vars

\* Outside dry-run, ExecuteApp on "blank" came first to chkA, which succeeded,
\* failed on its blank on_success and launched nothing; chkB, whose on_success
\* is a command, was never consulted.
C16_Witness ==
    /\ ~dryRun
    /\ ret.op = "ExecuteApp" /\ ret.app = "blank"
    /\ ret.err = "EmptyCommand"
    /\ ret.order = <<"chkA", "chkB">> /\ ret.consulted = <<"chkA">>
    /\ "chkB" \notin DOMAIN checkCache
    /\ launchCount = 0

\* The white space characters that separate the tokens of a command string.
WhiteSpaceChars == {" ", "\t", "\n", "\r"}

\* The maximal runs of characters of s that are not white space, as pairs of
\* first and last position.
TokenRuns(s) ==
    {run \in (1..Len(s)) \X (1..Len(s)) :
        /\ run[1] <= run[2]
        /\ \A k \in run[1]..run[2] : s[k] \notin WhiteSpaceChars
        /\ run[1] = 1 \/ s[run[1] - 1] \in WhiteSpaceChars
        /\ run[2] = Len(s) \/ s[run[2] + 1] \in WhiteSpaceChars}

ExecutorActed ==
    \/ checkCache' # checkCache \/ spawnCount' # spawnCount
    \/ launchCount' # launchCount \/ ret' # ret

\* C18: the batch takes the apps one at a time, in the order of the list it
\* was given.  Every step of the Executor (the gate, the resolution and the
\* launch, with every check evaluation they make) is made for the app the
\* loop is at, the gate first and then ExecuteApp; the loop moves on by one
\* app and never back; and the step that starts an app's detached process is
\* the last step made for that app: the loop moves on with it.
C18_OneAppAtATime ==
    [][/\ appsToLaunch' = appsToLaunch
       /\ pos' = pos \/ pos' = pos + 1
       /\ ExecutorActed =>
            /\ pos <= Len(appsToLaunch)
            /\ ret'.app = Apps[appsToLaunch[pos]].Name
            /\ ret'.op = (IF pc = "loop" THEN "CanExecuteApp" ELSE "ExecuteApp")
            /\ (DOMAIN checkCache') \ (DOMAIN checkCache) \subseteq
                 DOMAIN Apps[appsToLaunch[pos]].Dependencies
       /\ (pc' = "launch" /\ pc # "launch") =>
            pos' = pos /\ ret'.op = "CanExecuteApp" /\ ret'.ok
       /\ (pc = "launch" /\ pc' # "launch") =>
            pos' = pos + 1 /\ ret'.op = "ExecuteApp" /\ ret'.app = ret.app
       /\ launchCount' # launchCount =>
            pc = "launch" /\ pos' = pos + 1 /\ launchCount' = launchCount + 1
      ]_vars

\* The batch over all the apps has launched "plain", "one" and "two", in
\* that order, and stands before "mix".
C18_Witness ==
    /\ Len(appsToLaunch) = Len(Apps)
    /\ pos = 6 /\ pc = "loop"
    /\ ret.op = "ExecuteApp" /\ ret.app = "two" /\ ret.err = ""
    /\ launchCount = 3 /\ successCount = 3

\* The batch is over and every app of the list was considered.
BatchDone ==
    /\ pc = "done"
    /\ pos = Len(appsToLaunch) + 1
    /\ successCount + failureCount + skippedCount = Len(appsToLaunch)

\* C19: best effort.  Every call returning, the batch comes to its end, and
\* at its end every app of the list has been considered and counted as
\* launched, failed or skipped: a dependency error, a resolution error or a
\* launch failure of one app ends that app only.
C19_BatchTerminates ==
    /\ [](pc = "done" => BatchDone)
    /\ <>(pc = "done")

\* The batch over all the apps ended after three apps failed (a start
\* failure, an empty command and a dependency of the wrong type) and the
\* check chkB failed, and three apps were launched.
C19_Witness ==
    /\ BatchDone
    /\ Len(appsToLaunch) = Len(Apps)
    /\ failureCount = 3 /\ successCount = 3
    /\ ret.app = "wrong" /\ ret.err = "DependencyWrongType"
    /\ spawnCount["chkB"] = 1 /\ ~checkCache["chkB"]

\* The step is a call of the batch loop on an executable: its gate or its
\* ExecuteApp.
BatchCall ==
    /\ pc \in {"loop", "launch"} /\ pos <= Len(appsToLaunch)
    /\ Apps[appsToLaunch[pos]].Type # TypeCheck
    /\ pc' # pc \/ pos' # pos

\* C20 as stated: the failure count is increased only by an error starting
\* the detached process of the final launch.
C20_Original ==
    [][failureCount' # failureCount =>
        ret'.op = "ExecuteApp" /\ ret'.err = "StartFailure"]_vars

\* C20 amended: the failure count is increased, by one, exactly by a gate or
\* an ExecuteApp call of the batch that returns an error: a dependency lookup
\* or type error, an empty-command error of the resolution, or an error
\* starting the detached process.  A failed check and a check that could not
\* be started are no error of the call and do not increase it.
C20_FailureCountsErrors ==
    [][/\ BatchCall =>
            /\ failureCount' = failureCount + (IF ret'.err # "" THEN 1 ELSE 0)
            /\ ret'.err \in {"", "DependencyNotFound", "DependencyWrongType",
                             "EmptyCommand", "StartFailure"}
            /\ ret'.err = "StartFailure" => ret'.op = "ExecuteApp"
       /\ ~BatchCall => failureCount' = failureCount
      ]_vars

\* The batch over the apps tagged "net" skipped "one", whose check chkA
\* failed, without counting a failure; the gate of "wrong" then ran chkB,
\* which could not be started, and failed on the executable "plain" with the
\* dependency-wrong-type error: the one failure counted.
C20_Witness ==
    /\ ret.op = "CanExecuteApp" /\ ret.app = "wrong"
    /\ ret.err = "DependencyWrongType"
    /\ ret.consulted = <<"chkB", "plain">> /\ StartFailed(ret, "chkB")
    /\ failureCount = 1 /\ skippedCount = 2 /\ successCount = 1
    /\ spawnCount["chkA"] = 1 /\ ~checkCache["chkA"]

\* C21: after a batch the tool exits with status 0 only if every app of the
\* list was launched successfully, and with status 1 if one or more apps
\* failed to launch.
C21_ExitStatusTellsAllLaunched ==
    pc = "done" =>
        /\ exitStatus \in {0, 1}
        /\ exitStatus = 0 => successCount = Len(appsToLaunch)
        /\ failureCount > 0 => exitStatus = 1

\* The part of C21 the code keeps: the exit status is 1 exactly when a
\* failure was counted.
C21_ExitStatusTellsFailures ==
    pc = "done" => exitStatus = (IF failureCount > 0 THEN 1 ELSE 0)

\* C22: the batch applies the gate before it resolves.  An ExecuteApp call is
\* made for an app only as the next call after a CanExecuteApp call on that
\* app that returned true without error; when the gate returns false or an
\* error the loop moves on to the next app, nothing is launched, and no
\* process is launched except by the ExecuteApp call for the app the loop is
\* at.
C22_GateBeforeLaunch ==
    [][/\ (ret'.op = "ExecuteApp" /\ ret' # ret) =>
            /\ ret.op = "CanExecuteApp" /\ ret.app = ret'.app
            /\ ret.ok /\ ret.err = ""
       /\ (ret'.op = "CanExecuteApp" /\ ret' # ret
           /\ (~ret'.ok \/ ret'.err # "")) =>
            /\ pos' = pos + 1 /\ pc' = "loop"
            /\ launchCount' = launchCount
            /\ successCount' = successCount
       /\ launchCount' # launchCount =>
            /\ ret'.op = "ExecuteApp" /\ ret' # ret
            /\ ret'.app = Apps[appsToLaunch[pos]].Name
      ]_vars

\* The batch over all the apps denied "one", whose check chkA failed, and
\* went on without launching it; "two", allowed by chkB, has just been
\* launched.
C22_Witness ==
    /\ Len(appsToLaunch) = Len(Apps)
    /\ ret.op = "ExecuteApp" /\ ret.app = "two" /\ ret.err = ""
    /\ ~checkCache["chkA"]
    /\ skippedCount = 3 /\ launchCount = 2 /\ successCount = 2

\* The launched processes that have not ended.
RunningChildren == launchCount - exited.zero - exited.nonzero

\* C23: a launch is fire-and-forget.  The step that starts an app's detached
\* process returns no error and counts the app as launched while the process
\* has not ended; the end of a launched process, with whatever status,
\* changes none of the three counts, nothing of the loop and not the exit
\* status; and main's exit ends none of the launched processes: those
\* running go on running.
C23_FireAndForget ==
    [][/\ launchCount' # launchCount =>
            /\ ret'.op = "ExecuteApp" /\ ret'.err = ""
            /\ successCount' = successCount + 1
            /\ exited' = exited
            /\ RunningChildren' = RunningChildren + 1
       /\ exited' # exited =>
            UNCHANGED <<successCount, failureCount, skippedCount, exitStatus,
                        pc, pos, ret, launchCount>>
       /\ (pc' = "done" /\ pc # "done") =>
            exited' = exited /\ launchCount' = launchCount
       /\ pc = "done" =>
            UNCHANGED <<successCount, failureCount, skippedCount, exitStatus>>
      ]_vars

\* main has exited with status 0 after launching the three apps tagged
\* "core"; one of the launched processes has ended with a non-zero status and
\* two are still running.
C23_Witness ==
    /\ pc = "done" /\ exitStatus = 0
    /\ Len(appsToLaunch) = 3
    /\ launchCount = 3 /\ successCount = 3 /\ failureCount = 0
    /\ exited = [zero |-> 0, nonzero |-> 1]
    /\ RunningChildren = 2


\* C24: an ExecuteApp call on an app whose kind is not Executable fails with
\* the type-mismatch error and nothing else happens: it returns no command,
\* consults none of the app's dependencies, runs no check, leaves the cache
\* and the recorded results as they were and launches no process.
C24_NonExecutableIsTypeMismatch ==
    [][(ret'.op = "ExecuteApp" /\ AppNamed(ret'.app).Type # TypeExecutable) =>
        /\ ret'.err = "TypeMismatch" /\ ~ret'.ok
        /\ ret'.cmd = <<>> /\ ret'.args = <<>>
        /\ ret'.consulted = <<>> /\ ret'.fresh = {} /\ ret'.logged = {}
        /\ checkCache' = checkCache
        /\ spawnCount' = spawnCount
        /\ firstResult' = firstResult /\ lastResult' = lastResult
        /\ launchCount' = launchCount
      ]_vars

\* Outside dry-run, ExecuteApp refused the check "chkD", which depends on
\* chkA, while chkA had no recorded result: chkA was not run.
C24_Witness ==
    /\ ~dryRun
    /\ ret.op = "ExecuteApp" /\ ret.app = "chkD"
    /\ DOMAIN AppNamed("chkD").Dependencies = {"chkA"}
    /\ ret.err = "TypeMismatch"
    /\ "chkA" \notin DOMAIN checkCache
    /\ spawnCount["chkA"] = 0


\* C25: the dependency iteration order is fixed for the run.  When a
\* ResolveCommand call on an executable returned a command, the next call of
\* the Executor, if it is a ResolveCommand or an ExecuteApp on the same app
\* and returns no error, comes to the same command and arguments.
C25_ResolveIsRepeatable ==
    [][(/\ ret.op = "ResolveCommand" /\ ret.err = ""
        /\ AppNamed(ret.app).Type = TypeExecutable
        /\ ret'.op \in {"ResolveCommand", "ExecuteApp"}
        /\ ret'.app = ret.app /\ ret'.err = "") =>
            /\ ret'.cmd = ret.cmd
            /\ ret'.args = ret.args
      ]_vars

\* C26: an app is launched only if all its dependency checks have succeeded:
\* in a batch, no step launches an executable while the recorded result of one
\* of its dependencies is failure.
C26_LaunchedOnlyIfAllSucceeded ==
    [][launchCount' > launchCount =>
        \A d \in DOMAIN AppNamed(ret'.app).Dependencies :
            d \in DOMAIN checkCache' => checkCache'[d]
      ]_vars

Counted == successCount + failureCount + skippedCount

\* C28: the batch accounting.  The apps handled so far are the pos - 1 apps
\* before the loop's position, and launched + failed + skipped equals their
\* number at every point of the run; a step that finishes an app raises
\* exactly one of the three counts by one, a step that does not finish an
\* app changes none; and when main exits the sum is the length of the list
\* of apps to launch.
C28_BatchAccounting ==
    /\ [](/\ pos \in 1..(Len(appsToLaunch) + 1)
          /\ Counted = pos - 1
          /\ pc = "launch" => pos <= Len(appsToLaunch)
          /\ pc = "done" => Counted = Len(appsToLaunch))
    /\ [][/\ pos' \in {pos, pos + 1}
          /\ Counted' = Counted + (pos' - pos)
          /\ successCount' \in {successCount, successCount + 1}
          /\ failureCount' \in {failureCount, failureCount + 1}
          /\ skippedCount' \in {skippedCount, skippedCount + 1}
         ]_vars

\* The batch over all eight apps has ended with apps in each of the three
\* counts: three launched, one failed, four skipped.
C28_Witness ==
    /\ pc = "done"
    /\ Len(appsToLaunch) = 8
    /\ successCount = 3 /\ failureCount = 1 /\ skippedCount = 4

\* C29: in a batch, a check app in the list of apps to launch is counted as
\* skipped and nothing is done for it: the step that passes it makes no call
\* of the Executor, runs no command, records no result and launches nothing.
\* A check's command is run in a batch only by the gate or the launch of the
\* executable the loop is at, and only when that executable names the check
\* as a dependency; only executables are launched.
C29_CheckInBatchIsSkipped ==
    [][/\ (pc = "loop" /\ pos <= Len(appsToLaunch) /\ pos' # pos
           /\ Apps[appsToLaunch[pos]].Type = TypeCheck) =>
            /\ skippedCount' = skippedCount + 1
            /\ UNCHANGED <<successCount, failureCount, ret, checkCache, spawnCount,
                           firstResult, lastResult, printCount, launchCount>>
       /\ \A n \in DOMAIN spawnCount :
            spawnCount'[n] # spawnCount[n] =>
                /\ ret'.op \in {"CanExecuteApp", "ExecuteApp"}
                /\ ret'.app = Apps[appsToLaunch[pos]].Name
                /\ Apps[appsToLaunch[pos]].Type = TypeExecutable
                /\ n \in DOMAIN Apps[appsToLaunch[pos]].Dependencies
       /\ launchCount' # launchCount =>
            Apps[appsToLaunch[pos]].Type = TypeExecutable
       /\ printCount' = printCount
      ]_vars

\* Outside dry-run, the batch of -c chkA has ended: the check was counted as
\* skipped, its command was never run and it has no recorded result.
C29_Witness ==
    /\ ~dryRun
    /\ appsToLaunch = <<GetApp("chkA")>>
    /\ pc = "done"
    /\ skippedCount = 1 /\ successCount = 0 /\ failureCount = 0
    /\ spawnCount["chkA"] = 0
    /\ checkCache = EmptyMap
    /\ ret = NoCall

\* C30: over a configuration validateConfig accepted, no call of
\* ResolveCommand, CanExecuteApp or ExecuteApp returns the
\* dependency-not-found error: every dependency name of every app is the name
\* of an app of the configuration.
C30_ValidatedHasNoMissingDependency ==
    /\ validateConfig(Apps)
    /\ \A i \in 1..Len(Apps) : \A d \in DOMAIN Apps[i].Dependencies : GetApp(d) # 0
    /\ ret.op \in {"ResolveCommand", "CanExecuteApp", "ExecuteApp"} =>
            ret.err # "DependencyNotFound"

\* The dependency-wrong-type error stays reachable: in an accepted
\* configuration where the executable "self" names itself as a dependency,
\* CanExecuteApp on it ran its check chkA and then failed on "self".
C30_Witness ==
    /\ validateConfig(Apps)
    /\ "self" \in DOMAIN AppNamed("self").Dependencies
    /\ ret.op = "CanExecuteApp" /\ ret.app = "self"
    /\ ret.err = "DependencyWrongType" /\ ~ret.ok
    /\ ret.consulted = <<"chkA", "self">>

\* C31: the outcome of CanExecuteApp does not depend on the order its range
\* takes over the dependencies.  Whatever a CanExecuteApp call returned, the
\* same call from the same state under any other order would have returned
\* the same boolean and an error exactly when this one did; and when the call
\* returned no error, it would have left the same cache.
C31_GateOrderIndependent ==
    [][ret'.op = "CanExecuteApp" =>
        \A app \in {AppNamed(ret'.app)} :
        \A order \in Orders(DOMAIN app.Dependencies) :
        \A r \in {CanExecuteApp(ExecState, app, order)} :
            /\ r.ok = ret'.ok
            /\ (r.err = "") = (ret'.err = "")
            /\ ret'.err = "" => r.st.cache = checkCache'
      ]_vars

\* CanExecuteApp allowed "mix" going from chkB, recorded as failed before the
\* call, to chkA, which the call ran and recorded: the other order gives the
\* same answer and the same cache.
C31_Witness ==
    /\ ret.op = "CanExecuteApp" /\ ret.app = "mix"
    /\ ret.ok /\ ret.err = ""
    /\ ret.order = <<"chkB", "chkA">>
    /\ ret.fresh = {"chkA"}
    /\ ~checkCache["chkB"]

\* The contents the check result cache can have: a result for some of the
\* check apps.
Caches ==
    UNION {[names -> BOOLEAN] : names \in SUBSET CheckNames(Apps)}

\* The two errors of a dependency that is missing or is no check app.
DependencyErrors == {"DependencyNotFound", "DependencyWrongType"}

\* C32: when CanExecuteApp returned without error for an executable, the
\* next call, if it is a ResolveCommand or an ExecuteApp on the same app,
\* does not fail with a dependency error: ResolveCommand can fail only with
\* the empty-command error, ExecuteApp only with that or a process-start
\* failure.  And in the same run no earlier CanExecuteApp on the app can have
\* returned without error when a ResolveCommand or ExecuteApp on it fails
\* with a dependency error: under every order and every cache contents
\* CanExecuteApp returns an error for that app.
C32_GateErrorFreeThenNoDependencyError ==
    [][/\ (/\ ret.op = "CanExecuteApp" /\ ret.err = ""
           /\ AppNamed(ret.app).Type = TypeExecutable
           /\ ret'.op \in {"ResolveCommand", "ExecuteApp"}
           /\ ret'.app = ret.app) =>
            /\ ret'.err \notin DependencyErrors
            /\ ret'.op = "ResolveCommand" => ret'.err \in {"", "EmptyCommand"}
            /\ ret'.op = "ExecuteApp" =>
                    ret'.err \in {"", "EmptyCommand", "StartFailure"}
       /\ (/\ ret'.op \in {"ResolveCommand", "ExecuteApp"}
           /\ ret'.err \in DependencyErrors) =>
            \A app \in {AppNamed(ret'.app)} :
            \A order \in Orders(DOMAIN app.Dependencies) :
            \A cache \in Caches :
                CanExecuteApp([ExecState EXCEPT !.cache = cache], app, order).err # ""
      ]_vars

\* ExecuteApp on "blank" failed with the empty-command error of its blank
\* on_success and with no dependency error, both its checks being recorded
\* as an error-free gate on it leaves them.
C32_Witness ==
    /\ ret.op = "ExecuteApp" /\ ret.app = "blank"
    /\ ret.err = "EmptyCommand"
    /\ ret.consulted = <<"chkA">>
    /\ ret.fresh = {}
    /\ DOMAIN checkCache = {"chkA", "chkB"}

\* In main's loop an ExecuteApp call fails only with the empty-command error
\* or a process-start failure.
C32_BatchLaunchErrors ==
    [][(ret'.op = "ExecuteApp" /\ ret' # ret) =>
            ret'.err \in {"", "EmptyCommand", "StartFailure"}
      ]_vars

\* The app is an executable with dependencies, all of them check apps.
GatedByChecks(app) ==
    /\ app.Type = TypeExecutable
    /\ DOMAIN app.Dependencies # {}
    /\ \A d \in DOMAIN app.Dependencies : IsCheckName(d)

\* C33: in a dry run, which starts with an empty cache, CanExecuteApp on an
\* executable whose dependencies are all checks returns, without error, true
\* exactly when one of the dependencies has a non-empty on_success, so that
\* an executable with on_failure commands only is denied; and a
\* ResolveCommand or ExecuteApp that returns a command returns the app's
\* default command or the parsed on_success of a dependency, never an
\* on_failure command.
C33_DryRunGateIffOnSuccess ==
    [][dryRun =>
        /\ (ret'.op = "CanExecuteApp" /\ GatedByChecks(AppNamed(ret'.app))) =>
            /\ ret'.err = ""
            /\ ret'.ok = (\E d \in DOMAIN AppNamed(ret'.app).Dependencies :
                            AppNamed(ret'.app).Dependencies[d].OnSuccess # <<>>)
        /\ (ret'.op \in {"ResolveCommand", "ExecuteApp"} /\ ret'.err = "") =>
            \A app \in {AppNamed(ret'.app)} :
                /\ \/ Resolved(ret') = [cmd |-> app.Command, args |-> app.Args,
                                        err |-> ""]
                   \/ \E d \in DOMAIN app.Dependencies :
                        /\ app.Dependencies[d].OnSuccess # <<>>
                        /\ Resolved(ret') = parseCommand(app.Dependencies[d].OnSuccess)
                /\ \A d \in DOMAIN app.Dependencies :
                        app.Dependencies[d].OnFailure # <<>> =>
                            Resolved(ret') # parseCommand(app.Dependencies[d].OnFailure)
      ]_vars

\* In a dry run the gate denied "onfail", whose only dependency has an
\* on_failure and no on_success, although the check's command would fail: the
\* check was recorded as succeeded and was not run.
C33_Witness ==
    /\ dryRun
    /\ ret.op = "CanExecuteApp" /\ ret.app = "onfail"
    /\ ~ret.ok /\ ret.err = ""
    /\ AppNamed("onfail").Dependencies["chkA"].OnSuccess = <<>>
    /\ procOutcome["chkA"] = "exit1"
    /\ checkCache["chkA"]
    /\ spawnCount["chkA"] = 0

\* C34: PrintCheckResult bypasses the cache.  A call on a check app runs the
\* check's command once, whether or not the cache holds a result for the
\* check, and returns an error exactly when the command does not exit with
\* status 0; a call on an app that is no check returns the type-mismatch error
\* and runs nothing.  Either way the cache and what ExecuteCheck has run and
\* recorded are unchanged and nothing is launched.  (The steps of a call
\* leave the checks' outcomes as they are; a step that changes them is the
\* world's.)
C34_PrintCheckResultBypassesCache ==
    [][(ret'.op = "PrintCheckResult" /\ procOutcome' = procOutcome) =>
        /\ checkCache' = checkCache
        /\ spawnCount' = spawnCount
        /\ firstResult' = firstResult /\ lastResult' = lastResult
        /\ launchCount' = launchCount
        /\ IF IsCheckName(ret'.app)
           THEN /\ printCount' = printCount + 1
                /\ (ret'.err = "") = (procOutcome[ret'.app] = "exit0")
                /\ ret'.err = RunError(procOutcome[ret'.app])
           ELSE /\ printCount' = printCount
                /\ ret'.err = "TypeMismatch"
      ]_vars

\* PrintCheckResult ran the command of a check whose recorded result is
\* failure and reported success: the command now exits with status 0 and the
\* cache still says failure.
C34_Witness ==
    /\ ~dryRun
    /\ ret.op = "PrintCheckResult" /\ ret.err = ""
    /\ ret.now = "exit0"
    /\ ret.app \in DOMAIN checkCache /\ ~checkCache[ret.app]
    /\ spawnCount[ret.app] = 1
    /\ printCount = 1

\* -e: main exits with status 0 exactly when PrintCheckResult was called on
\* the named check and its command exited with status 0, and with status 1
\* otherwise.
C34_CheckModeExitStatus ==
    (/\ pc = "done" /\ config = "valid"
     /\ ~cli.listApps /\ ~cli.listAppsDetailed /\ cli.checkApp # "") =>
        /\ exitStatus \in {0, 1}
        /\ exitStatus = 0 <=>
            /\ IsCheckName(cli.checkApp)
            /\ ret.op = "PrintCheckResult" /\ ret.app = cli.checkApp
            /\ ret.now = "exit0" /\ ret.err = ""
        /\ ~IsCheckName(cli.checkApp) => ret = NoCall /\ printCount = 0

====
